---- MODULE Spec2Model ----
(***************************************************************************)
(* State-machine model of the WOUDC data registry ingestion pipeline:      *)
(*   - Process.process_data and its cross-reference checks (processing.py) *)
(*   - orchestrate, the batch loop (controller.py)                         *)
(*   - ExtendedCSV, the Extended CSV parser and validator (parser.py)      *)
(*   - ReportBuilder, the report accumulator and writer (report.py)        *)
(* Each component has its own specification over the shared variables;     *)
(* the variables of the components a specification does not exercise stay  *)
(* at their idle values.                                                   *)
(*                                                                         *)
(* Text that the code inspects character by character (input lines, table  *)
(* and field names, serial numbers, contributor acronyms) is a sequence of *)
(* one-character strings; text that is only compared for equality is a     *)
(* TLA+ string.                                                            *)
(***************************************************************************)
EXTENDS Integers, Sequences, FiniteSets, TLC

VARIABLES
    \* ---- registry and search index (external stores), Process ----
    deployments,      \* registry: deployment identifier -> [start_date, end_date]
    instruments,      \* registry: set of instrument records
    data_records,     \* registry: set of data record identifiers
    search_index,     \* search index: es_id -> indexed data_generation_version
    waf_files,        \* WAF: set of identifiers whose file was copied
    p_calls,          \* number of process_data calls made so far
    p_last,           \* what the last process_data call did
    \* ---- orchestrate ----
    o_pc, o_verify, o_files, o_i, o_passed, o_failed, o_persisted, o_order,
    \* ---- ExtendedCSV ----
    x_pc, x_lineno, x_parent, x_pending, x_tables, x_heap, x_count, x_line,
    x_errors, x_warnings, x_success, x_ops, x_last,
    \* ---- ReportBuilder ----
    r_defs, r_batch, r_report, r_status, r_contributors, r_runfile, r_last,
    r_root,           \* working directory of the report builder, or "None"
    r_run,            \* run number of the report builder
    r_dir,            \* names of the files in the working directory
    r_seen,           \* history: the files recorded so far, in order
    r_added,          \* history: the messages added since the last file
    s_pc,             \* position of _processing_run_statistics
    s_reports,        \* the operator reports of the directory, oldest first
    s_order,          \* the order in which os.listdir named them
    s_i,              \* number of reports scanned
    s_passed,         \* passed_files
    s_fixes,          \* files_to_fixes
    s_errors,         \* files_to_errors
    \* ---- ExtendedCSV._determine_version ----
    v_schema,         \* the version-keyed map of table groups
    v_runs,           \* the runs made so far on this document and schema
    \* ---- two ReportBuilders on one working directory ----
    b_pc,             \* builder -> "new", "constructed" or "writing"
    b_run,            \* builder -> its run number
    b_open            \* builder -> name of the operator report it opened

procVars   == <<deployments, instruments, data_records, search_index,
                waf_files, p_calls, p_last>>
orchVars   == <<o_pc, o_verify, o_files, o_i, o_passed, o_failed,
                o_persisted, o_order>>
parseVars  == <<x_pc, x_lineno, x_parent, x_pending, x_tables, x_heap,
                x_count, x_line, x_errors, x_warnings, x_success, x_ops,
                x_last>>
reportVars == <<r_defs, r_batch, r_report, r_status, r_contributors,
                r_runfile, r_last, r_root, r_run, r_dir, r_seen, r_added>>
statsVars  == <<s_pc, s_reports, s_order, s_i, s_passed, s_fixes, s_errors>>
moreVars   == <<v_schema, v_runs, b_pc, b_run, b_open>>
vars       == <<procVars, orchVars, parseVars, reportVars, statsVars,
                moreVars>>

InitVersionIdle == v_schema = <<>> /\ v_runs = <<>>

InitBuildersIdle == b_pc = <<>> /\ b_run = <<>> /\ b_open = <<>>

InitMoreIdle == InitVersionIdle /\ InitBuildersIdle

(***************************************************************************)
(* Generic helpers on sequences.                                           *)
(***************************************************************************)
Range(s) == {s[i] : i \in 1..Len(s)}

RECURSIVE SeqsUpTo(_, _)
SeqsUpTo(S, n) ==
    IF n = 0 THEN {<<>>}
    ELSE LET shorter == SeqsUpTo(S, n - 1)
         IN shorter \cup {Append(s, c) : s \in {t \in shorter : Len(t) = n - 1}, c \in S}

Abs(a) == IF a < 0 THEN -a ELSE a

(***************************************************************************)
(* Process (processing.py): one incoming file checked against the          *)
(* registry, then saved, copied to the WAF and indexed.                    *)
(***************************************************************************)
MaxDate == 3
MaxVersion == 1
MaxCalls == 2

Dates == 1..MaxDate
VersionValues == (-1)..MaxVersion

\* A document value: a number, a non-numeric string, or empty/None.
Num(v) == [kind |-> "num", val |-> v]
BadStr == [kind |-> "str", val |-> 0]
NoVal == [kind |-> "none", val |-> 0]
IntVal(v) == [kind |-> "int", val |-> v]

\* Registry contents that process_data only reads.
Projects == {"WOUDC"}
RegistryDatasets == {"TotalOzone", "Lidar"}
Contributors == {<<"MSC", "WOUDC">>}
Stations == {[identifier |-> "077", name |-> "Toronto", country |-> "CAN"]}
\* DOMAINS['Datasets']: the dataset categories of the table definition file
\* with the levels each one declares.
SchemaLevels == [d \in {"TotalOzone", "Broad-band"} |-> {1, 2}]

BaseInstrument ==
    [name |-> "Brewer", model |-> "MkIV", serial |-> <<"1">>,
     station |-> "077", dataset |-> "TotalOzone",
     x |-> Num(-79), y |-> Num(43), z |-> Num(198)]

InstrumentId(i) == <<i.name, i.model, i.serial, i.station, i.dataset>>

BaseDoc ==
    [Class |-> "WOUDC", Category |-> "TotalOzone", Level |-> Num(1),
     Form |-> IntVal(1), Agency |-> "MSC", DGDate |-> Num(1),
     Version |-> Num(1), PlatformID |-> "077", PlatformType |-> "STN",
     PlatformName |-> "Toronto", PlatformCountry |-> "CAN",
     InstrName |-> "Brewer", InstrModel |-> "MkIV", Number |-> <<"1">>,
     Lat |-> Num(43), Lon |-> Num(-79), Height |-> Num(198), TsDate |-> 1]

\* The documents tried: every combination of the fields that decide what is
\* written (date, serial number, version), and for every date each single
\* departure of another field from BaseDoc.
Departures ==
    {<<"Class", "">>, <<"Class", "XX">>, <<"Category", "Lidar">>,
     <<"Category", "Broad-band">>, <<"Category", "Nope">>,
     <<"Agency", "ZZZ">>, <<"PlatformID", "999">>,
     <<"PlatformType", "XXX">>, <<"PlatformName", "Tor">>,
     <<"PlatformCountry", "USA">>, <<"InstrName", "">>,
     <<"InstrModel", "na">>, <<"Lat", BadStr>>, <<"Lat", Num(44)>>,
     <<"Lat", Num(91)>>, <<"Lon", BadStr>>, <<"Lon", Num(-181)>>,
     <<"Height", BadStr>>, <<"Height", NoVal>>, <<"Height", Num(6000)>>,
     <<"Level", NoVal>>, <<"Level", BadStr>>, <<"Level", Num(9)>>,
     <<"Level", IntVal(1)>>, <<"Form", Num(1)>>, <<"Version", IntVal(1)>>,
     <<"Form", BadStr>>, <<"DGDate", NoVal>>, <<"Version", BadStr>>,
     <<"Version", Num(21)>>}

Docs ==
    {[BaseDoc EXCEPT !.TsDate = d, !.Number = n, !.Version = Num(v)] :
        d \in Dates, n \in {<<"1">>, <<"0", "1">>, <<"9">>},
        v \in VersionValues}
    \cup {[BaseDoc EXCEPT !.TsDate = d, ![dep[1]] = dep[2]] :
            d \in Dates, dep \in Departures}
    \cup {[BaseDoc EXCEPT !.Number = <<"9">>, ![dep[1]] = dep[2]] :
            dep \in {<<"Lat", BadStr>>, <<"Lon", BadStr>>}}

\* What the steps before the cross-checks make of the file: binary content,
\* undecodable text, a parse failure, a metadata validation failure, or a
\* valid document.
Fronts == {"binary", "undecodable", "nonstandard", "metadata"}
Infiles ==
    {[front |-> f, doc |-> BaseDoc] : f \in Fronts}
        \cup {[front |-> "ok", doc |-> d] : d \in Docs}

\* str.lstrip('0')
RECURSIVE LStripZeros(_)
LStripZeros(s) ==
    IF s # <<>> /\ Head(s) = "0" THEN LStripZeros(Tail(s)) ELSE s

\* The state a call works on: the document, the messages, the writes done,
\* and the registry tables a check may change.
\* what check_deployment and check_location returned, "none" before the call
NoneReturned == [check_deployment |-> "none", check_location |-> "none"]

Returned(b) == IF b THEN "True" ELSE "False"

Ctx(doc, deps, insts) ==
    [doc |-> doc, errors |-> <<>>, warnings |-> <<>>, writes |-> <<>>,
     deps |-> deps, insts |-> insts, ok |-> TRUE, all_ok |-> TRUE,
     raised |-> "none", returned |-> NoneReturned]

AddError(c, code) == [c EXCEPT !.errors = Append(@, code)]
AddWarning(c, code) == [c EXCEPT !.warnings = Append(@, code)]
AddWrite(c, w) == [c EXCEPT !.writes = Append(@, w)]
\* ok: what the check returns; all_ok: the conjunction process_data takes
\* of its checks' results
WithOk(c, b) == [c EXCEPT !.ok = b, !.all_ok = @ /\ b]
Raise(c, e) == [c EXCEPT !.ok = FALSE, !.all_ok = FALSE, !.raised = e]
\* The one element of a singleton set.
The(S) == CHOOSE x \in S : TRUE

check_project(c) ==
    LET c1 == IF c.doc.Class = ""
              THEN AddWarning([c EXCEPT !.doc.Class = "WOUDC"], 52)
              ELSE c
    IN IF c1.doc.Class \in Projects
       THEN WithOk(c1, TRUE)
       ELSE WithOk(AddError(c1, 53), FALSE)

check_dataset(c) ==
    IF c.doc.Category \in RegistryDatasets
    THEN WithOk(c, TRUE)
    ELSE WithOk(AddError(c, 56), FALSE)

check_contributor(c) ==
    IF <<c.doc.Agency, c.doc.Class>> \in Contributors
    THEN WithOk(c, TRUE)
    ELSE WithOk(AddError(c, 127), FALSE)

check_station(c) ==
    LET d == c.doc
        fix == d.PlatformType = "SHP" /\ d.PlatformCountry \in {"", "*IW"}
        c1 == IF fix
              THEN AddWarning([c EXCEPT !.doc.PlatformCountry = "XY"], 105)
              ELSE c
        d1 == c1.doc
        found == {s \in Stations : s.identifier = d1.PlatformID}
        type_ok == d1.PlatformType \in {"STN", "SHP"}
        name_ok == \E s \in found : s.name = d1.PlatformName
        country_ok == \E s \in found : s.country = d1.PlatformCountry
        c2 == IF type_ok THEN c1 ELSE AddError(c1, 128)
        c3 == IF name_ok THEN c2 ELSE AddError(c2, 130)
        c4 == IF country_ok THEN c3 ELSE AddError(c3, 131)
    IN IF found = {}
       THEN WithOk(AddError(c1, 129), FALSE)
       ELSE WithOk(c4, type_ok /\ name_ok /\ country_ok)

DeploymentId(d) == <<d.PlatformID, d.Agency, d.Class>>

check_deployment_start_only(c) ==
    LET id == DeploymentId(c.doc)
        date == c.doc.TsDate
    IN IF id \notin DOMAIN c.deps
       THEN WithOk(c, FALSE)
       ELSE IF c.deps[id].start_date > date
       THEN WithOk(AddWrite([c EXCEPT !.deps[id].start_date = date],
                            "save_deployment_dates"), TRUE)
       ELSE WithOk(c, TRUE)

check_deployment(c) ==
    LET id == DeploymentId(c.doc)
        date == c.doc.TsDate
    IN IF id \notin DOMAIN c.deps
       THEN WithOk(c, FALSE)
       ELSE LET dep == c.deps[id]
            IN IF dep.start_date > date
               THEN WithOk(AddWrite([c EXCEPT !.deps[id].start_date = date],
                                    "save_deployment_dates"), TRUE)
               ELSE IF dep.end_date < date
               THEN WithOk(AddWrite([c EXCEPT !.deps[id].end_date = date],
                                    "save_deployment_dates"), TRUE)
               ELSE WithOk(c, TRUE)

add_deployment(c) ==
    LET id == DeploymentId(c.doc)
        dep == [start_date |-> c.doc.TsDate, end_date |-> c.doc.TsDate]
    IN AddWrite([c EXCEPT !.deps = [i \in DOMAIN @ \cup {id} |->
                                        IF i = id THEN dep ELSE @[i]]],
                "save_deployment")

check_instrument(c) ==
    LET d == c.doc
        name == IF d.InstrName \in {"", "na", "n/a"} THEN "UNKNOWN"
                ELSE d.InstrName
        model == IF d.InstrModel \in {"", "na", "n/a"} THEN "UNKNOWN"
                 ELSE d.InstrModel
        c1 == [c EXCEPT !.doc.InstrName = name, !.doc.InstrModel = model]
        found == {i \in c.insts :
                     /\ i.name = name /\ i.model = model
                     /\ i.serial = d.Number /\ i.station = d.PlatformID
                     /\ i.dataset = d.Category}
    IN IF name = "UNKNOWN"
       THEN WithOk(AddError(c1, 72), FALSE)
       ELSE IF found = {}
       THEN WithOk(c1, FALSE)
       ELSE WithOk(c1, TRUE)

add_instrument(c, verify_only) ==
    LET d == c.doc
        new == [name |-> d.InstrName, model |-> d.InstrModel,
                serial |-> d.Number, station |-> d.PlatformID,
                dataset |-> d.Category,
                x |-> d.Lon, y |-> d.Lat, z |-> d.Height]
        found == {i \in c.insts :
                     /\ i.name = d.InstrName /\ i.model = d.InstrModel
                     /\ i.station = d.PlatformID /\ i.dataset = d.Category}
    IN IF found # {}
       THEN IF verify_only
            THEN WithOk(c, TRUE)
            ELSE WithOk(AddWrite([c EXCEPT !.insts = @ \cup {new}],
                                 "save_instrument"), TRUE)
       ELSE WithOk(c, FALSE)

\* float(value) succeeds
Numeric(v) == v.kind \in {"num", "int"}

check_location(c, instrument_id) ==
    LET d == c.doc
        lat_num == Numeric(d.Lat)
        lon_num == Numeric(d.Lon)
        c1 == IF lat_num
              THEN IF -90 <= d.Lat.val /\ d.Lat.val <= 90 THEN c
                   ELSE AddWarning(c, 76)
              ELSE AddError(c, 75)
        c2 == IF lon_num
              THEN IF -180 <= d.Lon.val /\ d.Lon.val <= 180 THEN c1
                   ELSE AddWarning(c1, 76)
              ELSE AddError(c1, 75)
        \* a height of '' or None or 0 is falsy and skipped
        has_height == d.Height.kind # "none" /\ ~(Numeric(d.Height) /\ d.Height.val = 0)
        c3 == IF ~has_height \/ (-50 <= d.Height.val /\ d.Height.val <= 5100)
              THEN c2 ELSE AddWarning(c2, 76)
        found == IF instrument_id = <<>> THEN {}
                 ELSE {i \in c.insts : InstrumentId(i) = instrument_id}
        inst == CHOOSE i \in found : TRUE
        lat_far == lat_num /\ Numeric(inst.y) /\ Abs(d.Lat.val - inst.y.val) >= 1
        lon_far == lon_num /\ Numeric(inst.x) /\ Abs(d.Lon.val - inst.x.val) >= 1
        h_far == has_height /\ Numeric(inst.z) /\ Abs(d.Height.val - inst.z.val) >= 1
        c4 == IF lat_far THEN AddError(c3, 77) ELSE c3
        c5 == IF lon_far THEN AddError(c4, 77) ELSE c4
        c6 == IF h_far THEN AddWarning(c5, 77) ELSE c5
    IN IF has_height /\ ~Numeric(d.Height)
       THEN Raise(c2, "AttributeError")      \* self.warning does not exist
       ELSE IF instrument_id = <<>>
       THEN WithOk(c3, lat_num /\ lon_num)
       ELSE IF found = {}
       THEN WithOk(c3, TRUE)
       ELSE WithOk(c6, (lat_num /\ ~lat_far) /\ (lon_num /\ ~lon_far))

check_content_consistency(c) ==
    LET d == c.doc
        c1 == CASE d.Level.kind = "none" ->
                     AddWarning([c EXCEPT !.doc.Level = Num(1)], 58)
                [] d.Level.kind = "int" ->
                     AddWarning([c EXCEPT !.doc.Level = Num(d.Level.val)], 57)
                [] d.Level.kind = "str" -> AddError(c, 60)
                [] OTHER -> c
        level_ok1 == d.Level.kind # "str"
        known == /\ c1.doc.Level.kind = "num"
                 /\ c1.doc.Level.val \in SchemaLevels[d.Category]
        c2 == IF known THEN c1 ELSE AddError(c1, 60)
        c3 == CASE d.Form.kind = "int" -> c2
                [] d.Form.kind = "num" ->
                     AddWarning([c2 EXCEPT !.doc.Form.kind = "int"], 61)
                [] OTHER -> AddError(c2, 62)
        form_ok == d.Form.kind \in {"int", "num"}
    IN IF d.Category \notin DOMAIN SchemaLevels
       THEN Raise(c1, "KeyError")
       ELSE WithOk(c3, level_ok1 /\ known /\ form_ok)

check_data_generation_consistency(c) ==
    LET d == c.doc
        c1 == IF d.DGDate.kind = "none" THEN AddWarning(c, 63) ELSE c
        v == d.Version
        c2 == IF ~(0 <= v.val /\ v.val <= 20) THEN AddWarning(c1, 66) ELSE c1
        c3 == IF v.kind = "int"
              THEN AddWarning([c2 EXCEPT !.doc.Version.kind = "num"], 67)
              ELSE c2
    IN IF Numeric(v) THEN WithOk(c3, TRUE)
       ELSE WithOk(AddError(c1, 68), FALSE)

\* DataRecord (models.py is not part of the sources): the search index key
\* names the file without its version, the registry identifier with it.
EsId(d) == <<d.Category, d.Agency, d.PlatformID, d.InstrName>>
DataRecordId(d) == <<EsId(d), d.Version.val>>

\* What a call leaves behind.
Outcome(c, result, records, index, waf) ==
    [result |-> result, raised |-> c.raised, errors |-> c.errors,
     warnings |-> c.warnings, writes |-> c.writes, deps |-> c.deps,
     insts |-> c.insts, records |-> records, index |-> index, waf |-> waf,
     doc |-> c.doc, returned |-> c.returned]

\* The index step of process_data: the record is indexed when the index
\* returns a falsy version or one below the incoming version.
IndexWanted(version, incoming) ==
    IF version.kind # "none" /\ version.val # 0
    THEN version.val < incoming
    ELSE TRUE

IndexedVersion(index, es_id) ==
    IF es_id \in DOMAIN index THEN Num(index[es_id]) ELSE NoVal

persist_record(c, records, index, waf) ==
    LET d == c.doc
        id == DataRecordId(d)
        es == EsId(d)
        c1 == AddWrite(AddWrite(c, "save_data_record"), "copy_to_waf")
        version == IndexedVersion(index, es)
    IN IF IndexWanted(version, d.Version.val)
       THEN Outcome(AddWrite(c1, "index_data_record"), "True",
                    records \cup {id},
                    [e \in DOMAIN index \cup {es} |->
                        IF e = es THEN d.Version.val ELSE index[e]],
                    waf \cup {id})
       ELSE Outcome(c1, "True", records \cup {id}, index, waf \cup {id})

\* The instrument step of process_data: the serial number as given, then
\* without its leading zeros, then the insertion of a new instrument.
instrument_step(c, verify_only) ==
    LET keep == [c EXCEPT !.ok = TRUE]
        old_serial == c.doc.Number
        first == check_instrument(keep)
        second == IF first.ok THEN first
                  ELSE check_instrument(
                           [first EXCEPT !.doc.Number = LStripZeros(old_serial),
                                         !.all_ok = c.all_ok])
        third == IF second.ok THEN second
                 ELSE LET a == add_instrument(
                                   [second EXCEPT !.doc.Number = old_serial,
                                                  !.all_ok = c.all_ok],
                                   verify_only)
                      IN IF a.ok THEN AddWarning(a, 201)
                         ELSE AddError(a, 139)
    IN third

location_step(c) ==
    LET r == check_location(c, IF c.ok
                               THEN <<c.doc.InstrName, c.doc.InstrModel,
                                      c.doc.Number, c.doc.PlatformID,
                                      c.doc.Category>>
                               ELSE <<>>)
    IN IF r.raised # "none" THEN r
       ELSE [r EXCEPT !.returned.check_location = Returned(r.ok)]

\* A step is skipped once an exception is under way.
Unless(c, next) == IF c.raised # "none" THEN c ELSE next

\* The branch of process_data for a missing deployment reads platform_id,
\* agency and project, which process_data never binds: NameError.
deployment_step(c) ==
    LET checked == check_deployment(c)
        r == [checked EXCEPT
                 !.returned.check_deployment = Returned(checked.ok)]
    IN IF r.ok THEN r ELSE Raise(r, "NameError")

cross_checks(c0, verify_only) ==
    LET S1 == {check_project(c0)}
        S2 == {check_dataset(c) : c \in S1}
        S3 == {check_contributor(c) : c \in S2}
        S4 == {check_station(c) : c \in S3}
        S5 == {deployment_step(c) : c \in S4}
        S6 == {Unless(c, instrument_step(c, verify_only)) : c \in S5}
        S7 == {Unless(c, location_step(c)) : c \in S6}
        S8 == {Unless(c, check_content_consistency(c)) : c \in S7}
        S9 == {Unless(c, check_data_generation_consistency(c)) : c \in S8}
    IN The(S9)

after_checks(c, verify_only, records, index, waf) ==
    IF c.raised # "none"
    THEN Outcome(c, "raised", records, index, waf)
    ELSE IF ~c.all_ok
    THEN Outcome(c, "False", records, index, waf)
    ELSE IF DataRecordId(c.doc) \in records
    THEN Outcome(c, "False", records, index, waf)
    ELSE IF verify_only
    THEN Outcome(c, "True", records, index, waf)
    ELSE persist_record(c, records, index, waf)

process_data(infile, verify_only, deps, insts, records, index, waf) ==
    IF infile.front \in Fronts
    THEN Outcome(Ctx(BaseDoc, deps, insts), "False", records, index, waf)
    ELSE The({after_checks(c, verify_only, records, index, waf) :
                 c \in {cross_checks(Ctx(infile.doc, deps, insts),
                                     verify_only)}})

NoCall ==
    [called |-> FALSE, verify_only |-> FALSE, result |-> "none",
     raised |-> "none", writes |-> <<>>, errors |-> <<>>, warnings |-> <<>>,
     indexed_before |-> NoVal, incoming |-> NoVal, front |-> "none",
     doc |-> BaseDoc, returned |-> NoneReturned]

InitProcessIdle ==
    /\ deployments = <<>>
    /\ instruments = {}
    /\ data_records = {}
    /\ search_index = <<>>
    /\ waf_files = {}
    /\ p_calls = 0
    /\ p_last = NoCall

\* The registry may or may not know the deployment, with any date range.
InitProcess ==
    /\ \E known \in BOOLEAN, s \in Dates, e \in Dates :
          /\ s <= e
          /\ (~known => s = 1 /\ e = 1)
          /\ deployments =
                IF known
                THEN [i \in {DeploymentId(BaseDoc)} |->
                         [start_date |-> s, end_date |-> e]]
                ELSE <<>>
    /\ instruments = {BaseInstrument}
    /\ data_records = {}
    /\ search_index = <<>>
    /\ waf_files = {}
    /\ p_calls = 0
    /\ p_last = NoCall

ProcessData ==
    /\ p_calls < MaxCalls
    /\ \E infile \in Infiles, verify_only \in BOOLEAN :
          \E r \in {process_data(infile, verify_only, deployments,
                                 instruments, data_records, search_index,
                                 waf_files)} :
             /\ deployments' = r.deps
             /\ instruments' = r.insts
             /\ data_records' = r.records
             /\ search_index' = r.index
             /\ waf_files' = r.waf
             /\ p_calls' = p_calls + 1
             /\ p_last' =
                   [called |-> TRUE, verify_only |-> verify_only,
                    result |-> r.result, raised |-> r.raised,
                    writes |-> r.writes, errors |-> r.errors,
                    warnings |-> r.warnings,
                    indexed_before |->
                        IF infile.front \in Fronts THEN NoVal
                        ELSE IndexedVersion(search_index, EsId(infile.doc)),
                    incoming |->
                        IF infile.front \in Fronts THEN NoVal
                        ELSE infile.doc.Version,
                    front |-> infile.front, doc |-> r.doc,
                    returned |-> r.returned]
    /\ UNCHANGED <<moreVars, orchVars, parseVars, reportVars, statsVars>>

(***************************************************************************)
(* orchestrate (controller.py): the batch loop over the files of a source. *)
(* A path is a number: its rank in the order of path strings.              *)
(***************************************************************************)
MaxPaths == 3
Paths == 1..MaxPaths

\* The listings os.walk can produce: the files of the tree, each once, in
\* any order; a single file; or nothing when the source is neither.
Listings == {l \in SeqsUpTo(Paths, MaxPaths) :
                \A i, j \in 1..Len(l) : i # j => l[i] # l[j]}

RECURSIVE InsertSorted(_, _)
InsertSorted(s, x) ==
    IF s = <<>> THEN <<x>>
    ELSE IF x <= Head(s) THEN <<x>> \o s
    ELSE <<Head(s)>> \o InsertSorted(Tail(s), x)

RECURSIVE SortAscending(_)
SortAscending(s) ==
    IF s = <<>> THEN <<>> ELSE InsertSorted(SortAscending(Tail(s)), Head(s))

\* files_to_process.sort()
sort_files(listing) == SortAscending(listing)

\* What Process.validate and Process.persist can do for one file.
ValidateOutcomes == {"True", "False", "raised"}
PersistOutcomes == {"ok", "raised"}

\* handle_file with the file counted as passed before persist is called.
handle_file_passed_early(validated, persisted, verify_only) ==
    IF validated = "True"
    THEN IF verify_only
         THEN [list |-> "passed", persist |-> "none"]
         ELSE IF persisted = "ok"
         THEN [list |-> "passed", persist |-> "ok"]
         ELSE [list |-> "passed", persist |-> "raised"]
    ELSE [list |-> "failed", persist |-> "none"]

\* One pass of the loop body for a file whose validate and persist end as
\* given: which list the file is appended to and whether persist is called.
handle_file(validated, persisted, verify_only) ==
    IF validated = "True"
    THEN IF verify_only
         THEN [list |-> "passed", persist |-> "none"]
         ELSE IF persisted = "ok"
         THEN [list |-> "passed", persist |-> "ok"]
         ELSE [list |-> "failed", persist |-> "raised"]
    ELSE [list |-> "failed", persist |-> "none"]

InitOrchIdle ==
    /\ o_pc = "idle" /\ o_verify = FALSE /\ o_files = <<>> /\ o_i = 0
    /\ o_passed = <<>> /\ o_failed = <<>> /\ o_persisted = <<>>
    /\ o_order = <<>>

\* What orchestrate leaves alone.
OrchFrame == UNCHANGED <<moreVars, procVars, parseVars, reportVars, statsVars>>

InitOrch ==
    /\ o_pc = "start" /\ o_verify = FALSE /\ o_files = <<>> /\ o_i = 0
    /\ o_passed = <<>> /\ o_failed = <<>> /\ o_persisted = <<>>
    /\ o_order = <<>>

\* orchestrate up to the loop: list the source, sort, open the stores.
OrchStart ==
    /\ o_pc = "start"
    /\ \E listing \in Listings, verify_only \in BOOLEAN :
          /\ o_files' = sort_files(listing)
          /\ o_verify' = verify_only
    /\ o_i' = 1
    /\ o_pc' = "loop"
    /\ UNCHANGED <<o_passed, o_failed, o_persisted, o_order>>
    /\ OrchFrame

\* One iteration of the loop.
OrchFile ==
    /\ o_pc = "loop"
    /\ o_i <= Len(o_files)
    /\ \E validated \in ValidateOutcomes, persisted \in PersistOutcomes :
          \E h \in {handle_file(validated, persisted, o_verify)} :
             /\ o_passed' = IF h.list = "passed"
                            THEN Append(o_passed, o_files[o_i]) ELSE o_passed
             /\ o_failed' = IF h.list = "failed"
                            THEN Append(o_failed, o_files[o_i]) ELSE o_failed
             /\ o_persisted' = IF h.persist # "none"
                               THEN Append(o_persisted, o_files[o_i])
                               ELSE o_persisted
             /\ o_order' = Append(o_order,
                                  [file |-> o_files[o_i],
                                   validated |-> validated,
                                   persist |-> h.persist])
    /\ o_i' = o_i + 1
    /\ UNCHANGED <<o_pc, o_verify, o_files>>
    /\ OrchFrame

\* After the loop: the session is closed and the summary printed.
OrchFinish ==
    /\ o_pc = "loop"
    /\ o_i > Len(o_files)
    /\ o_pc' = "done"
    /\ UNCHANGED <<o_verify, o_files, o_i, o_passed, o_failed, o_persisted,
                   o_order>>
    /\ OrchFrame

(***************************************************************************)
(* ExtendedCSV (parser.py): text primitives.                               *)
(***************************************************************************)
MaxLines == 4     \* input lines the constructor reads
MaxOps   == 3     \* table operations after the constructor returned

Whitespace == {" "}

LowerChar(ch) ==
    CASE ch = "A" -> "a" [] ch = "B" -> "b" [] ch = "K" -> "k"
      [] ch = "N" -> "n" [] ch = "O" -> "o" [] ch = "U" -> "u"
      [] ch = "W" -> "w" [] ch = "X" -> "x" [] ch = "Y" -> "y"
      [] ch = "Z" -> "z" [] OTHER -> ch

lower(s) == [i \in 1..Len(s) |-> LowerChar(s[i])]

RECURSIVE lstrip(_, _)
lstrip(s, chars) ==
    IF s # <<>> /\ Head(s) \in chars THEN lstrip(Tail(s), chars) ELSE s

RECURSIVE rstrip(_, _)
rstrip(s, chars) ==
    IF s # <<>> /\ s[Len(s)] \in chars
    THEN rstrip(SubSeq(s, 1, Len(s) - 1), chars) ELSE s

strip(s) == rstrip(lstrip(s, Whitespace), Whitespace)

startswith(s, ch) == s # <<>> /\ Head(s) = ch

HasAt(s, i, sub) ==
    /\ i + Len(sub) - 1 <= Len(s)
    /\ SubSeq(s, i, i + Len(sub) - 1) = sub

contains(s, sub) == \E i \in 1..Len(s) : HasAt(s, i, sub)

\* str.replace: every non-overlapping occurrence, scanning left to right.
RECURSIVE replace(_, _, _)
replace(s, old, new) ==
    IF s = <<>> THEN <<>>
    ELSE IF HasAt(s, 1, old)
         THEN new \o replace(SubSeq(s, Len(old) + 1, Len(s)), old, new)
         ELSE <<Head(s)>> \o replace(Tail(s), old, new)

Digits == <<"0", "1", "2", "3", "4", "5", "6", "7", "8", "9">>

RECURSIVE str(_)
str(n) ==
    IF n < 10 THEN <<Digits[n + 1]>>
    ELSE str(n \div 10) \o <<Digits[(n % 10) + 1]>>

\* csv.reader on one line of text without quote characters: the fields
\* between commas; an empty line is a row with no field.
RECURSIVE csv_fields(_)
csv_fields(s) ==
    IF \A i \in 1..Len(s) : s[i] # "," THEN <<s>>
    ELSE LET i == CHOOSE k \in 1..Len(s) :
                     s[k] = "," /\ \A j \in 1..(k - 1) : s[j] # ","
         IN <<SubSeq(s, 1, i - 1)>> \o csv_fields(SubSeq(s, i + 1, Len(s)))

csv_row(s) == IF s = <<>> THEN <<>> ELSE csv_fields(s)

non_content_line(line) ==
    IF Len(line) = 0 THEN TRUE
    ELSE IF Len(line) = 1
         THEN strip(line[1]) = <<>> \/ startswith(strip(line[1]), "*")
         ELSE startswith(strip(line[1]), "*")

(***************************************************************************)
(* ExtendedCSV: the object.  extcsv maps a table name to an ordered        *)
(* dictionary [keys, col]: keys is the field order, col[field] is a        *)
(* reference into heap, the list objects holding the columns (two fields   *)
(* may refer to the same list object).  reports is the report builder's    *)
(* batch; ok is the running `success` of the method being executed.        *)
(***************************************************************************)
\* The severity classes of the error definition file, for the codes the
\* parser emits (error 25 is an Error in the shipped file).
ParserCodes == {5, 6, 7, 9, 14, 15, 16, 20, 25}

SevereSets == {{}, {25}, {16, 25}, {5, 6, 7, 9, 14, 15, 25}, ParserCodes}

ErrorDefinitions ==
    {[c \in ParserCodes |-> IF c \in S THEN "Error" ELSE "Warning"] :
        S \in SevereSets}

\* report.py 80-95: the four per-message lists 'Line Number', 'Error Code',
\* 'Error Type' and 'Message', and the per-file fields.
EmptyBatch ==
    [status |-> "", line_numbers |-> <<>>, error_codes |-> <<>>,
     error_types |-> <<>>, message_texts |-> <<>>, agency |-> <<>>,
     filepath |-> ""]

\* the i-th entries of the four lists, as write_operator_report zips them
\* (report.py 523-528)
Messages(batch) ==
    [i \in 1..Len(batch.line_numbers) |->
        [line    |-> batch.line_numbers[i],
         code    |-> batch.error_codes[i],
         type    |-> batch.error_types[i],
         message |-> batch.message_texts[i]]]

NewExtendedCSV(batch) ==
    [extcsv |-> <<>>, heap |-> <<>>, table_count |-> <<>>,
     line_num |-> <<>>, errors |-> <<>>, warnings |-> <<>>,
     reports |-> batch, ok |-> TRUE, raised |-> "None"]

Severe_never(defs, error_code) == FALSE

\* report.py 396: severe = error_class != 'Warning'
Severe(defs, error_code) == defs[error_code] # "Warning"

add_message_front(batch, defs, error_code, line) ==
    [batch EXCEPT !.line_numbers  = <<line>> \o @,
                  !.error_codes   = <<error_code>> \o @,
                  !.error_types   = <<defs[error_code]>> \o @,
                  !.message_texts = <<"message">> \o @]

add_message(batch, defs, error_code, line) ==
    [batch EXCEPT !.line_numbers  = Append(@, line),
                  !.error_codes   = Append(@, error_code),
                  !.error_types   = Append(@, defs[error_code]),
                  !.message_texts = Append(@, "message")]

add_to_report(s, defs, error_code, line) ==
    [s EXCEPT !.reports  = add_message(@, defs, error_code, line),
              !.errors   = IF Severe(defs, error_code)
                           THEN Append(@, error_code) ELSE @,
              !.warnings = IF Severe(defs, error_code)
                           THEN @ ELSE Append(@, error_code),
              !.ok       = @ /\ ~Severe(defs, error_code)]

\* dict keys in first-insertion order
RECURSIVE Dedup(_)
Dedup(keys) ==
    IF keys = <<>> THEN <<>>
    ELSE LET front == Dedup(SubSeq(keys, 1, Len(keys) - 1))
         IN IF keys[Len(keys)] \in Range(front) THEN front
            ELSE Append(front, keys[Len(keys)])

IndexOf(seq, x) == CHOOSE i \in 1..Len(seq) : seq[i] = x

init_table_name_unsuffixed(table_count, table_name) ==
    IF table_name \notin DOMAIN table_count THEN table_name
    ELSE table_name \o <<"_">> \o str(table_count[table_name])

init_table_name(table_count, table_name) ==
    IF table_name \notin DOMAIN table_count THEN table_name
    ELSE table_name \o <<"_">> \o str(table_count[table_name] + 1)

init_table(s, table_name, fields, line_num) ==
    LET name  == init_table_name(s.table_count, table_name)
        count == IF table_name \notin DOMAIN s.table_count THEN 1
                 ELSE s.table_count[table_name] + 1
        keys  == Dedup([i \in 1..Len(fields) |-> strip(fields[i])])
        table == [keys |-> keys,
                  col  |-> [k \in Range(keys) |->
                               Len(s.heap) + IndexOf(keys, k)]]
    IN [s EXCEPT !.table_count = (table_name :> count) @@ @,
                 !.extcsv      = (name :> table) @@ @,
                 !.line_num    = (name :> line_num) @@ @,
                 !.heap        = @ \o [i \in 1..Len(keys) |-> <<>>]]

\* for field, value in zip(fields, values): column.append(value.strip())
RECURSIVE AppendRow(_, _, _, _)
AppendRow(heap, table, values, i) ==
    IF i > Len(table.keys) THEN heap
    ELSE AppendRow([heap EXCEPT ![table.col[table.keys[i]]] =
                        Append(@, strip(values[i]))],
                   table, values, i + 1)

add_values_to_table(s, defs, table_name, values, line_num) ==
    LET fields  == s.extcsv[table_name].keys
        fillins == Len(fields) - Len(values)
        padded  == IF fillins > 0
                   THEN values \o [i \in 1..fillins |-> <<>>]
                   ELSE values
    IN [(IF fillins < 0 THEN add_to_report(s, defs, 25, line_num) ELSE s)
            EXCEPT !.heap = AppendRow(@, s.extcsv[table_name],
                                      SubSeq(padded, 1, Len(fields)), 1)]

\* {key.lower(): key for key in keys}.get(name): the last key spelled
\* like name when case is ignored, if there is one.
CaseMatches(keys, name) == {i \in 1..Len(keys) : lower(keys[i]) = name}

HasCaseMatch(keys, name) == CaseMatches(keys, name) # {}

CaseMatch(keys, name) ==
    keys[CHOOSE i \in CaseMatches(keys, name) :
             \A j \in CaseMatches(keys, name) : j <= i]

\* OrderedDict: assignment keeps the position of a key already present
\* and appends a new key; deletion removes the key.
od_set(table, key, ref) ==
    IF key \in Range(table.keys) THEN [table EXCEPT !.col[key] = ref]
    ELSE [keys |-> Append(table.keys, key),
          col  |-> (key :> ref) @@ table.col]

od_del_kept(table, key) == table

od_del(table, key) ==
    [keys |-> SelectSeq(table.keys, LAMBDA k : k # key),
     col  |-> [k \in (DOMAIN table.col) \ {key} |-> table.col[k]]]

\* parser.py 774-786: every missing required field is renamed from a
\* provided field spelled alike, or is bound to the list null_value.
RECURSIVE fill_missing(_, _, _, _, _, _, _)
fill_missing(s, defs, table, missing_fields, provided, null_value, fieldline) ==
    IF missing_fields = <<>> \/ s.raised # "None" THEN s
    ELSE LET missing == Head(missing_fields)
             found   == /\ HasCaseMatch(provided, lower(missing))
                        /\ CaseMatch(provided, lower(missing)) # <<>>
         IN IF found
            THEN LET match == CaseMatch(provided, lower(missing))
                 IN IF match \notin Range(s.extcsv[table].keys)
                    THEN [add_to_report(s, defs, 20, fieldline)
                             EXCEPT !.raised = "KeyError"]
                    ELSE fill_missing(
                           [add_to_report(s, defs, 20, fieldline)
                               EXCEPT !.extcsv[table] =
                                   od_set(od_del(@, match), missing,
                                          @.col[match])],
                           defs, table, Tail(missing_fields), provided,
                           null_value, fieldline)
            ELSE fill_missing(
                   [add_to_report(s, defs, 5, fieldline)
                       EXCEPT !.extcsv[table] =
                           od_set(@, missing, null_value)],
                   defs, table, Tail(missing_fields), provided,
                   null_value, fieldline)

\* parser.py 795-812: a provided field that is not required is renamed to
\* the optional field spelled alike, or deleted.
RECURSIVE sort_extras(_, _, _, _, _, _)
sort_extras(s, defs, table, extra_fields, optional, fieldline) ==
    IF extra_fields = <<>> \/ s.raised # "None" THEN s
    ELSE LET extra == Head(extra_fields)
             found == /\ HasCaseMatch(optional, lower(extra))
                      /\ CaseMatch(optional, lower(extra)) # <<>>
         IN IF extra \notin Range(s.extcsv[table].keys)
            THEN [s EXCEPT !.raised = "KeyError"]
            ELSE IF found
            THEN LET match == CaseMatch(optional, lower(extra))
                 IN IF extra # match
                    THEN sort_extras(
                           [add_to_report(s, defs, 20, fieldline)
                               EXCEPT !.extcsv[table] =
                                   od_set(od_del(@, extra), match,
                                          @.col[extra])],
                           defs, table, Tail(extra_fields), optional,
                           fieldline)
                    ELSE sort_extras(s, defs, table, Tail(extra_fields),
                                     optional, fieldline)
            ELSE sort_extras(
                   [add_to_report(s, defs, 6, fieldline)
                       EXCEPT !.extcsv[table] = od_del(@, extra)],
                   defs, table, Tail(extra_fields), optional, fieldline)

\* parser.py 815-821: error 7 at the first empty value of a required column
RECURSIVE check_empty(_, _, _, _, _)
check_empty(s, defs, table, required, valueline) ==
    IF required = <<>> \/ s.raised # "None" THEN s
    ELSE IF Head(required) \notin Range(s.extcsv[table].keys)
         THEN [s EXCEPT !.raised = "KeyError"]
         ELSE LET column ==
                      s.heap[s.extcsv[table].col[Head(required)]]
              IN check_empty(
                   IF <<>> \in Range(column)
                   THEN add_to_report(s, defs, 7,
                            valueline + IndexOf(column, <<>>) - 1)
                   ELSE s,
                   defs, table, Tail(required), valueline)

check_field_validity(s, defs, table, definition) ==
    LET required == definition.required_fields
        optional == definition.optional_fields
        provided == s.extcsv[table].keys
        missing_fields ==
            SelectSeq(required, LAMBDA f : f \notin Range(provided))
        extra_fields ==
            SelectSeq(provided, LAMBDA f :
                \A r \in Range(required) : lower(r) # lower(f))
        fieldline == s.line_num[table] + 1
    IN IF provided = <<>> THEN [s EXCEPT !.raised = "StopIteration"]
       ELSE LET num_rows   == Len(s.heap[s.extcsv[table].col[provided[1]]])
                null_value == Len(s.heap) + 1
            IN check_empty(
                 sort_extras(
                   fill_missing(
                     [s EXCEPT !.heap =
                          Append(@, [i \in 1..num_rows |-> <<>>])],
                     defs, table, missing_fields, provided, null_value,
                     fieldline),
                   defs, table, extra_fields, optional, fieldline),
                 defs, table, required, fieldline + 1)

(***************************************************************************)
(* ExtendedCSV.__init__ (parser.py 109-182), one input line at a time.     *)
(***************************************************************************)
BadSeps == << <<":", ":">>, <<";">>, <<"$">>, <<"%">>, <<"|">>, <<"\\">> >>

separators_in(row) ==
    SelectSeq(BadSeps, LAMBDA bad_sep :
        ~non_content_line(row) /\ contains(row[1], bad_sep))

\* parser.py 145-150; next(csv.reader(...)) of an empty text raises
\* StopIteration.
RECURSIVE repair_row(_, _, _, _, _)
repair_row(s, defs, row, separators, line_num) ==
    IF separators = <<>> THEN [self |-> s, row |-> row]
    ELSE LET comma_separated == replace(row[1], Head(separators), <<",">>)
         IN IF comma_separated = <<>>
            THEN [self |-> [s EXCEPT !.raised = "StopIteration"],
                  row  |-> row]
            ELSE repair_row(add_to_report(s, defs, 16, line_num), defs,
                            csv_row(comma_separated), Tail(separators),
                            line_num)

NoTable == [some |-> FALSE, name |-> <<>>]

Table(name) == [some |-> TRUE, name |-> name]

\* parser.py 152-179: what the loop does with the repaired row.
parse_row(s, defs, parent_table, row, line_num) ==
    IF Len(row) = 1 /\ startswith(row[1], "#")
    THEN [self |-> s, pc |-> "header",
          parent |-> Table(strip(lstrip(row[1], {"#"})))]
    ELSE IF Len(row) > 0 /\ startswith(row[1], "*")
    THEN [self |-> s, pc |-> "lines", parent |-> parent_table]
    ELSE IF non_content_line(row)
    THEN [self |-> s, pc |-> "lines", parent |-> parent_table]
    ELSE IF parent_table.some
    THEN [self |-> add_values_to_table(s, defs, parent_table.name, row,
                                       line_num),
          pc |-> "lines", parent |-> parent_table]
    ELSE [self |-> add_to_report(s, defs, 15, line_num),
          pc |-> "lines", parent |-> parent_table]

InitParseIdle ==
    /\ x_pc = "idle" /\ x_lineno = 0 /\ x_parent = <<>> /\ x_pending = <<>>
    /\ x_tables = <<>> /\ x_heap = <<>> /\ x_count = <<>> /\ x_line = <<>>
    /\ x_errors = <<>> /\ x_warnings = <<>> /\ x_success = TRUE
    /\ x_ops = 0 /\ x_last = <<>>

(***************************************************************************)
(* ReportBuilder (report.py).  The report batch holds the messages of the  *)
(* file being processed; recording a file writes the batch to the operator *)
(* report, rewrites the run report and empties the batch.                  *)
(***************************************************************************)
MaxMessages == 2    \* messages added in one run
MaxFiles    == 2    \* files recorded by one report builder

NoLine == 0         \* line = None

UnknownCode == 999  \* a code the error definition file does not have

Unknown == <<"U", "N", "K", "N", "O", "W", "N">>

Agencies == { <<"A", "B">>, <<"A", "-", "B">>, <<"a", "b">>, <<"X">> }

Filepaths == {"f1", "f2"}

\* the characters of contributor names in code point order
CodePoints ==
    <<"-", "A", "B", "K", "N", "O", "U", "W", "X", "Y", "Z",
      "a", "b", "k", "n", "o", "u", "w", "x", "y", "z">>

RECURSIVE str_less(_, _)
str_less(a, b) ==
    IF b = <<>> THEN FALSE
    ELSE IF a = <<>> THEN TRUE
    ELSE IF Head(a) = Head(b) THEN str_less(Tail(a), Tail(b))
    ELSE IndexOf(CodePoints, Head(a)) < IndexOf(CodePoints, Head(b))

RECURSIVE insert_name(_, _)
insert_name(names, x) ==
    IF names = <<>> THEN <<x>>
    ELSE IF str_less(x, Head(names)) THEN <<x>> \o names
    ELSE <<Head(names)>> \o insert_name(Tail(names), x)

RECURSIVE sorted(_)
sorted(names) ==
    IF names = <<>> THEN <<>>
    ELSE insert_name(sorted(Tail(names)), Head(names))

\* contributor.replace('-', '').lower()
raw_contributor(contributor) ==
    lower(SelectSeq(contributor, LAMBDA ch : ch # "-"))

\* A report builder without a working directory: root is None and the
\* run number is 0 (report.py 97-98).
NoReportDirectory ==
    /\ r_root = "None" /\ r_run = 0 /\ r_dir = {} /\ r_seen = <<>>
    /\ r_added = <<>>

(***************************************************************************)
(* ReportBuilder.__init__: the run number (report.py 97-100, 105-144).     *)
(* File names are character sequences; the two regular expressions are     *)
(* matched as the code's re.match and re.search match them.                *)
(***************************************************************************)
MaxRun == 2     \* run numbers a caller supplies

OperatorReportPrefix ==
    <<"o", "p", "e", "r", "a", "t", "o", "r", "-",
      "r", "e", "p", "o", "r", "t", "-">>

RunTag == <<"-", "r", "u", "n">>

Date1 == <<"2", "0", "2", "4", "-", "0", "1", "-", "0", "1">>
Date2 == <<"2", "0", "2", "3", "-", "1", "2", "-", "3", "1">>

\* What the working directory may hold: operator reports of two dates
\* with runs 1, 3 and 10, a name that ends in "xcsv", a backup copy and
\* a run report.
DirectoryNames ==
    { OperatorReportPrefix \o Date1 \o RunTag \o <<"1", ".", "c", "s", "v">>,
      OperatorReportPrefix \o Date2 \o RunTag \o <<"3", ".", "c", "s", "v">>,
      OperatorReportPrefix \o Date2 \o RunTag
          \o <<"1", "0", ".", "c", "s", "v">>,
      OperatorReportPrefix \o Date1 \o RunTag \o <<"7", "x", "c", "s", "v">>,
      OperatorReportPrefix \o Date1 \o RunTag
          \o <<"5", ".", "c", "s", "v", ".", "b", "a", "k">>,
      <<"r", "u", "n", "4">> }

IsDigit(ch) == ch \in Range(Digits)

AllDigits(text) == \A i \in 1..Len(text) : IsDigit(text[i])

\* \d{4}-\d{2}-\d{2}
MatchesDate(text) ==
    /\ Len(text) = 10
    /\ AllDigits(SubSeq(text, 1, 4)) /\ text[5] = "-"
    /\ AllDigits(SubSeq(text, 6, 7)) /\ text[8] = "-"
    /\ AllDigits(SubSeq(text, 9, 10))

\* re.match(r'^operator-report-\d{4}-\d{2}-\d{2}-run\d+.csv$', name): the
\* dot of the pattern matches any character.
matches_operator_report(name) ==
    /\ Len(name) >= 35
    /\ SubSeq(name, 1, 16) = OperatorReportPrefix
    /\ MatchesDate(SubSeq(name, 17, 26))
    /\ SubSeq(name, 27, 30) = RunTag
    /\ AllDigits(SubSeq(name, 31, Len(name) - 4))
    /\ SubSeq(name, Len(name) - 2, Len(name)) = <<"c", "s", "v">>

\* The same with the dot read as a full stop.
matches_operator_report_literal_dot(name) ==
    /\ matches_operator_report(name)
    /\ name[Len(name) - 3] = "."

RECURSIVE int(_)
int(digits) ==
    IF digits = <<>> THEN 0
    ELSE 10 * int(SubSeq(digits, 1, Len(digits) - 1))
         + (IndexOf(Digits, digits[Len(digits)]) - 1)

\* int(re.search(r'run(\d+).csv$', name).group(1)) for a matching name
report_number(name) == int(SubSeq(name, 31, Len(name) - 4))

find_operator_reports(listing) ==
    {name \in listing : matches_operator_report(name)}

SetMax(S) == CHOOSE x \in S : \A y \in S : y <= x

determine_run_number(listing) ==
    1 + SetMax({0} \cup {report_number(name) :
                            name \in find_operator_reports(listing)})

\* report.py 97-100
run_number(root, run, listing) ==
    IF root = "None" THEN 0
    ELSE IF run # 0 THEN run ELSE determine_run_number(listing)

NewOrderedDict == [keys |-> <<>>, col |-> <<>>]

\* The report builder held in the variables.
Rb ==
    [batch |-> r_batch, report |-> r_report, status |-> r_status,
     contributors |-> r_contributors, runfile |-> r_runfile,
     raised |-> "None"]

\* report.py 505-546: the header when the file is first opened, then one
\* row for every entry of the four message lists.
write_operator_report(rb) ==
    LET batch == rb.batch
        rows  == [i \in 1..Len(Messages(batch)) |->
                    [status   |-> batch.status,
                     type     |-> Messages(batch)[i].type,
                     code     |-> Messages(batch)[i].code,
                     line     |-> Messages(batch)[i].line,
                     message  |-> Messages(batch)[i].message,
                     agency   |-> batch.agency,
                     filepath |-> batch.filepath]]
    IN [rb EXCEPT !.report = [open |-> TRUE,
                              rows |-> IF rb.report.open
                                       THEN rb.report.rows \o rows
                                       ELSE rows]]

\* report.py 476-489: the loop that groups the file lists under the
\* official spelling of each contributor, or under UNKNOWN.
RECURSIVE merge_contributors(_, _, _)
merge_contributors(st, contributors, names) ==
    IF names = <<>> \/ st.raised # "None" THEN st
    ELSE LET contributor == Head(names)
             raw         == raw_contributor(contributor)
             status      == st.status
         IN IF raw \in DOMAIN contributors
            THEN IF contributor = contributors[raw]
                 THEN merge_contributors(st, contributors, Tail(names))
                 ELSE IF \/ contributors[raw] \notin Range(status.keys)
                         \/ contributor \notin Range(status.keys)
                      THEN [st EXCEPT !.raised = "KeyError"]
                      ELSE merge_contributors(
                             [st EXCEPT !.status =
                                od_del(od_set(@, contributors[raw],
                                              @.col[contributors[raw]]
                                                \o @.col[contributor]),
                                       contributor)],
                             contributors, Tail(names))
            ELSE LET known == IF Unknown \in Range(status.keys) THEN status
                              ELSE od_set(status, Unknown, <<>>)
                 IN
                 IF raw \notin Range(known.keys)
                 THEN [status |-> known, raised |-> "KeyError"]
                 ELSE merge_contributors(
                        [status |-> od_del(od_set(known, Unknown,
                                                  known.col[Unknown]
                                                    \o known.col[raw]),
                                           raw),
                         raised |-> "None"],
                        contributors, Tail(names))

\* report.py 491-503: contributors in sorted order, UNKNOWN last.
contributor_list(status) ==
    LET names == sorted(status.keys)
    IN IF Unknown \in Range(names)
       THEN Append(SelectSeq(names, LAMBDA n : n # Unknown), Unknown)
       ELSE names

write_run_report(rb) ==
    LET st == merge_contributors([status |-> rb.status, raised |-> "None"],
                                 rb.contributors, rb.status.keys)
    IN IF st.raised # "None"
       THEN [rb EXCEPT !.status = st.status, !.raised = st.raised]
       ELSE [rb EXCEPT !.status = st.status,
                       !.runfile =
                           [i \in 1..Len(st.status.keys) |->
                              [contributor |->
                                   contributor_list(st.status)[i],
                               results |->
                                   st.status.col[
                                       contributor_list(st.status)[i]]]]]

\* report.py 192-207
flush_report_batch(rb) ==
    LET written == write_run_report(write_operator_report(rb))
    IN IF written.raised # "None" THEN written
       ELSE [written EXCEPT !.batch = EmptyBatch]

\* report.py 146-190 and the bookkeeping common to both record methods
load_and_count(rb, filepath, contributor, result) ==
    [rb EXCEPT !.batch.agency = contributor,
               !.batch.filepath = filepath,
               !.batch.status = result,
               !.status =
                   od_set(@, contributor,
                          Append(IF contributor \in Range(@.keys)
                                 THEN @.col[contributor] ELSE <<>>,
                                 <<result, filepath>>))]

record_passing_file(rb, filepath, contributor) ==
    flush_report_batch(
        load_and_count(
            [rb EXCEPT !.contributors =
                 (raw_contributor(contributor) :> contributor) @@ @],
            filepath, contributor, "P"))

record_failing_file(rb, filepath, contributor) ==
    flush_report_batch(load_and_count(rb, filepath, contributor, "F"))

StoreReport(rb) ==
    /\ r_batch' = rb.batch /\ r_report' = rb.report
    /\ r_status' = rb.status /\ r_contributors' = rb.contributors
    /\ r_runfile' = rb.runfile

ReportFrame ==
    UNCHANGED <<moreVars,
                procVars, orchVars, parseVars, statsVars, r_defs, r_root,
                r_run, r_dir>>

BeforeRecord == [messages |-> Messages(r_batch), rows |-> r_report.rows]

FilesRecorded ==
    IF r_status.keys = <<>> THEN 0
    ELSE LET RECURSIVE Total(_)
             Total(names) ==
                 IF names = <<>> THEN 0
                 ELSE Len(r_status.col[Head(names)]) + Total(Tail(names))
         IN Total(r_status.keys)

\* The error definitions that differ in the severities of the codes
\* added here, 16 and 25.
ReportDefinitions == {defs \in ErrorDefinitions : defs[5] = "Warning"}

InitReport ==
    /\ r_defs \in ReportDefinitions
    /\ r_batch = EmptyBatch
    /\ r_report = [open |-> FALSE, rows |-> <<>>]
    /\ r_status = NewOrderedDict
    /\ r_contributors = (raw_contributor(Unknown) :> Unknown)
    /\ r_runfile = <<>>
    /\ r_last = [op |-> "none", filepath |-> "", status |-> "",
                 before |-> <<>>, raised |-> "None"]
    /\ r_root \in {"None", "dir"} /\ r_dir = {}
    /\ r_run = run_number(r_root, 0, r_dir)
    /\ r_seen = <<>> /\ r_added = <<>>

AddMessage ==
    /\ Len(r_report.rows) + Len(r_batch.line_numbers) < MaxMessages
    /\ FilesRecorded < MaxFiles
    /\ \E error_code \in {16, 25, UnknownCode}, line \in {NoLine, 1, 2} :
          IF error_code \in DOMAIN r_defs
          THEN /\ r_batch' = add_message(r_batch, r_defs, error_code, line)
               /\ r_added' = Append(r_added, [code |-> error_code,
                                              line |-> line])
               /\ r_last' = [op |-> "add_message", filepath |-> "",
                             status |-> "", before |-> BeforeRecord,
                             raised |-> "None", error_code |-> error_code,
                             severe |-> Severe(r_defs, error_code),
                             batch |-> r_batch]
          ELSE /\ r_batch' = r_batch
               /\ r_added' = r_added
               /\ r_last' = [op |-> "add_message", filepath |-> "",
                             status |-> "", before |-> BeforeRecord,
                             raised |-> "ValueError",
                             error_code |-> error_code, severe |-> FALSE,
                             batch |-> r_batch]
    /\ UNCHANGED <<r_report, r_status, r_contributors, r_runfile, r_seen>>
    /\ ReportFrame

RecordPassingFile ==
    /\ FilesRecorded < MaxFiles
    /\ \E filepath \in Filepaths, contributor \in Agencies :
       \E rb \in {record_passing_file(Rb, filepath, contributor)} :
          /\ StoreReport(rb)
          /\ r_last' = [op |-> "record_passing_file", filepath |-> filepath,
                        status |-> "P", before |-> BeforeRecord,
                        raised |-> rb.raised]
          /\ r_seen' = Append(r_seen, [contributor |-> contributor,
                                       status |-> "P",
                                       filepath |-> filepath,
                                       added |-> r_added])
          /\ r_added' = <<>>
    /\ ReportFrame

RecordFailingFile ==
    /\ FilesRecorded < MaxFiles
    /\ \E filepath \in Filepaths, contributor \in Agencies :
       \E rb \in {record_failing_file(Rb, filepath, contributor)} :
          /\ StoreReport(rb)
          /\ r_last' = [op |-> "record_failing_file", filepath |-> filepath,
                        status |-> "F", before |-> BeforeRecord,
                        raised |-> rb.raised]
          /\ r_seen' = Append(r_seen, [contributor |-> contributor,
                                       status |-> "F",
                                       filepath |-> filepath,
                                       added |-> r_added])
          /\ r_added' = <<>>
    /\ ReportFrame

\* The constructor called on a working directory (or None) with a run
\* number argument; the report builder is not used before it returns.
InitRun ==
    /\ r_root \in {"None", "dir"}
    /\ r_dir \in SUBSET DirectoryNames
    /\ r_run = 0
    /\ r_last = [op |-> "none", run |-> 0]
    /\ r_defs = <<>> /\ r_batch = <<>> /\ r_report = <<>> /\ r_status = <<>>
    /\ r_contributors = <<>> /\ r_runfile = <<>> /\ r_seen = <<>>
    /\ r_added = <<>>

NewReportBuilder ==
    /\ r_last.op = "none"
    /\ \E run \in 0..MaxRun :
          /\ r_run' = run_number(r_root, run, r_dir)
          /\ r_last' = [op |-> "__init__", run |-> run]
    /\ UNCHANGED <<moreVars,
                   procVars, orchVars, parseVars, statsVars, r_defs, r_batch,
                   r_report, r_status, r_contributors, r_runfile, r_root,
                   r_dir, r_seen, r_added>>

InitReportIdle ==
    /\ r_defs = <<>> /\ r_batch = <<>> /\ r_report = <<>> /\ r_status = <<>>
    /\ r_contributors = <<>> /\ r_runfile = <<>> /\ r_last = <<>>
    /\ NoReportDirectory

\* Input lines: table headers, a blank line, a comment, rows of one to
\* three values, and rows written with non-standard separators.
Lines ==
    { <<"#", "A">>,
      <<"#", "A", "_", "2">>,
      <<>>,
      <<"*", "c">>,
      <<"x">>,
      <<"x", ",", "y">>,
      <<"x", ";", "y">>,
      <<"x", ";", "y", "|", "z">>,
      <<"x", ";", "y", ",", "z">>,
      <<";", "y", "|", "z">> }

\* The ExtendedCSV object held in the variables, and back.
Self ==
    [extcsv |-> x_tables, heap |-> x_heap, table_count |-> x_count,
     line_num |-> x_line, errors |-> x_errors, warnings |-> x_warnings,
     reports |-> r_batch, ok |-> x_success, raised |-> "None"]

Store(s) ==
    /\ x_tables' = s.extcsv /\ x_heap' = s.heap /\ x_count' = s.table_count
    /\ x_line' = s.line_num /\ x_errors' = s.errors
    /\ x_warnings' = s.warnings /\ r_batch' = s.reports
    /\ x_success' = s.ok

ParseFrame ==
    UNCHANGED <<moreVars,
                procVars, orchVars, statsVars, r_defs, r_report, r_status,
                r_contributors, r_runfile, r_last, r_root, r_run, r_dir,
                r_seen, r_added>>

NoStep == [op |-> "none", line |-> <<>>, separators |-> <<>>,
           row |-> <<>>, raised |-> "None"]

InitParse ==
    /\ x_pc = "lines" /\ x_lineno = 0 /\ x_parent = NoTable
    /\ x_pending = 0
    /\ x_tables = <<>> /\ x_heap = <<>> /\ x_count = <<>> /\ x_line = <<>>
    /\ x_errors = <<>> /\ x_warnings = <<>> /\ x_success = TRUE
    /\ x_ops = 0 /\ x_last = NoStep
    /\ r_defs \in ErrorDefinitions /\ r_batch = EmptyBatch
    /\ r_report = <<>> /\ r_status = <<>> /\ r_contributors = <<>>
    /\ r_runfile = <<>> /\ r_last = <<>>
    /\ NoReportDirectory

\* One iteration of the loop at parser.py 139-179 that does not read a
\* table's field line.
ParseLine ==
    /\ x_pc = "lines" /\ x_lineno < MaxLines
    /\ \E line \in Lines :
       \E rep \in {repair_row(Self, r_defs, csv_row(line),
                              separators_in(csv_row(line)), x_lineno + 1)} :
          /\ x_lineno' = x_lineno + 1
          /\ IF rep.self.raised # "None"
             THEN /\ Store(rep.self)
                  /\ x_pc' = "raised"
                  /\ x_last' = [op |-> "line", line |-> line,
                                separators |-> separators_in(csv_row(line)),
                                row |-> rep.row,
                                raised |-> rep.self.raised]
                  /\ UNCHANGED <<x_parent, x_pending>>
             ELSE \E out \in {parse_row(rep.self, r_defs, x_parent, rep.row,
                                        x_lineno + 1)} :
                  /\ Store(out.self)
                  /\ x_pc' = out.pc
                  /\ x_parent' = out.parent
                  /\ x_pending' = IF out.pc = "header" THEN x_lineno + 1
                                  ELSE x_pending
                  /\ x_last' = [op |-> "line", line |-> line,
                                separators |-> separators_in(csv_row(line)),
                                row |-> rep.row, raised |-> "None"]
    /\ UNCHANGED x_ops
    /\ ParseFrame

\* parser.py 157-164: the lines read after a table name until its field
\* line; they are not repaired.
ParseHeader ==
    /\ x_pc = "header" /\ x_lineno < MaxLines
    /\ \E line \in Lines :
          /\ x_lineno' = x_lineno + 1
          /\ x_last' = [op |-> "header", line |-> line, separators |-> <<>>,
                        row |-> csv_row(line), raised |-> "None"]
          /\ IF non_content_line(csv_row(line))
             THEN /\ Store(add_to_report(Self, r_defs, 14, x_lineno + 1))
                  /\ UNCHANGED <<x_pc, x_parent>>
             ELSE /\ Store(init_table(Self, x_parent.name, csv_row(line),
                                      x_pending))
                  /\ x_parent' = Table(init_table_name(x_count,
                                                       x_parent.name))
                  /\ x_pc' = "lines"
    /\ UNCHANGED <<x_pending, x_ops>>
    /\ ParseFrame

\* End of input: StopIteration inside the header search gives error 9
\* (parser.py 165-167); then parser.py 181-182.
ParseEnd ==
    /\ x_pc \in {"lines", "header"}
    /\ \E s \in {IF x_pc = "header"
                 THEN add_to_report(Self, r_defs, 9, x_pending)
                 ELSE Self} :
          /\ Store(s)
          /\ x_pc' = IF s.ok THEN "ready" ELSE "raised"
          /\ x_last' = [op |-> "end", line |-> <<>>, separators |-> <<>>,
                        row |-> <<>>,
                        raised |-> IF s.ok THEN "None"
                                   ELSE "NonStandardDataError"]
    /\ UNCHANGED <<x_lineno, x_parent, x_pending, x_ops>>
    /\ ParseFrame


(***************************************************************************)
(* The table operations of a parsed document: add_values_to_table and      *)
(* check_field_validity called on the object the constructor returned.     *)
(***************************************************************************)
TableA == <<"A">>

Headers ==
    { << <<"x">> >>,
      << <<"x">>, <<"y">> >>,
      << <<"X">>, <<"y">> >>,
      << <<"z">> >> }

ValueRows ==
    { << <<"1">> >>,
      << <<"1">>, <<"2">> >>,
      << <<>>, <<"1">> >>,
      << <<"1">>, <<"2">>, <<"3">> >> }

Definitions ==
    { [required_fields |-> << <<"X">>, <<"Y">> >>,
       optional_fields |-> << <<"Z">> >>],
      [required_fields |-> << <<"x">> >>,
       optional_fields |-> <<>>],
      [required_fields |-> <<>>,
       optional_fields |-> << <<"y">> >>] }

\* The documents the constructor returns for a file with one table A,
\* a field line and at most one value row.
ParsedDocuments(defs) ==
    LET s0 == NewExtendedCSV(EmptyBatch)
    IN {init_table(s0, TableA, header, 1) : header \in Headers}
       \cup {add_values_to_table(init_table(s0, TableA, header, 1), defs,
                                 TableA, << <<"1">> >>, 3) :
                header \in Headers}

InitTable ==
    /\ r_defs \in ErrorDefinitions
    /\ \E s \in ParsedDocuments(r_defs) :
          /\ x_tables = s.extcsv /\ x_heap = s.heap
          /\ x_count = s.table_count /\ x_line = s.line_num
          /\ x_errors = s.errors /\ x_warnings = s.warnings
          /\ r_batch = s.reports /\ x_success = s.ok
          /\ x_lineno = 2 + Len(s.heap[1])
    /\ x_pc = "ready" /\ x_parent = Table(TableA) /\ x_pending = 1
    /\ x_ops = 0
    /\ x_last = [op |-> "none", table |-> <<>>, values |-> <<>>,
                 before |-> <<>>, raised |-> "None"]
    /\ r_report = <<>> /\ r_status = <<>> /\ r_contributors = <<>>
    /\ r_runfile = <<>> /\ r_last = <<>>
    /\ NoReportDirectory

Before == [extcsv |-> x_tables, heap |-> x_heap,
           messages |-> Messages(r_batch)]

AddValues ==
    /\ x_pc = "ready" /\ x_ops < MaxOps
    /\ \E table_name \in DOMAIN x_tables, values \in ValueRows :
       \E s \in {add_values_to_table([Self EXCEPT !.ok = TRUE], r_defs,
                                     table_name, values, x_lineno + 1)} :
          /\ Store(s)
          /\ x_last' = [op |-> "add_values_to_table", table |-> table_name,
                        values |-> values, before |-> Before,
                        raised |-> "None"]
    /\ x_lineno' = x_lineno + 1
    /\ x_ops' = x_ops + 1
    /\ UNCHANGED <<x_pc, x_parent, x_pending>>
    /\ ParseFrame

\* the last operation was a check_field_validity call on this table with
\* this definition, and it returned
RepairedBy(table, definition) ==
    /\ x_last.op = "check_field_validity" /\ x_last.raised = "None"
    /\ x_last.table = table /\ x_last.definition = definition

CheckFieldValidity ==
    /\ x_pc = "ready" /\ x_ops < MaxOps
    /\ \E table \in DOMAIN x_tables, definition \in Definitions :
       \E s \in {check_field_validity([Self EXCEPT !.ok = TRUE], r_defs,
                                      table, definition)} :
          /\ Store(s)
          /\ x_pc' = IF s.raised = "None" THEN "ready" ELSE "raised"
          /\ x_last' = [op |-> "check_field_validity", table |-> table,
                        values |-> definition.required_fields,
                        before |-> Before, raised |-> s.raised,
                        definition |-> definition,
                        again |-> RepairedBy(table, definition)]
    /\ x_ops' = x_ops + 1
    /\ UNCHANGED <<x_lineno, x_parent, x_pending>>
    /\ ParseFrame

(***************************************************************************)
(* ExtendedCSV.parse_utcoffset (parser.py 514-610) on the text of a         *)
(* UTCOffset value.                                                        *)
(***************************************************************************)
OffsetCodes == 41..47

OffsetSevereSets == {{}, {47}, {44, 47}, {42, 43, 45}, OffsetCodes}

OffsetDefinitions ==
    {[c \in OffsetCodes |-> IF c \in S THEN "Error" ELSE "Warning"] :
        S \in OffsetSevereSets}

UtcOffsets ==
    { <<"+", "0", "0">>,
      <<"0", "0", ":", "0", "0">>,
      <<"0">>,
      <<"-", "0", ":", "0", ":", "0">>,
      <<"0", "0", "0">>,
      <<"+", "0", "0", "0", "0", ":", "0">>,
      <<"+", "0", "0", ":", "0", "0", ":", "0", "0">>,
      <<"-", "0", "0", ":", "0", "0", ":", "0", "0">>,
      <<"-", "0", "5", ":", "3", "0", ":", "0", "0">>,
      <<"0", "5", ":", "3", "0", ":", "0", "0">>,
      <<"+", "-", "0", "3", ":", "0", "0">>,
      <<"5">>,
      <<"0", "0", ".", "0", "0">>,
      <<"+", "0", "1", " ", "0", "0", ".", "0", "0">>,
      <<"2", "4">>,
      <<"+", "0", "1", ":", "6", "0">>,
      <<"a">>,
      <<>> }

\* \w
IsWord(ch) ==
    ch \in Range(Digits) \cup (Range(CodePoints) \ {"-"}) \cup {"_"}

\* [^-\+\w\d]
IsSeparator(ch) == ch \notin {"-", "+"} /\ ~IsWord(ch)

\* parser.py 530-531
bad_seps(utcoffset) ==
    {utcoffset[i] : i \in {j \in 1..Len(utcoffset) :
                              IsSeparator(utcoffset[j])}} \ {":"}

RECURSIVE add_to_report_times(_, _, _, _, _)
add_to_report_times(s, defs, error_code, line, n) ==
    IF n = 0 THEN s
    ELSE add_to_report_times(add_to_report(s, defs, error_code, line),
                             defs, error_code, line, n - 1)

\* (\+|-|\+-)? in front of a digit
sign_of(utcoffset) ==
    IF HasAt(utcoffset, 1, <<"+", "-">>) THEN <<"+", "-">>
    ELSE IF startswith(utcoffset, "+") THEN <<"+">>
    ELSE IF startswith(utcoffset, "-") THEN <<"-">>
    ELSE <<>>

\* the places between the delimiters
RECURSIVE places(_)
places(text) ==
    IF \A i \in 1..Len(text) : ~IsSeparator(text[i]) THEN <<text>>
    ELSE LET i == CHOOSE k \in 1..Len(text) :
                      /\ IsSeparator(text[k])
                      /\ \A j \in 1..(k - 1) : ~IsSeparator(text[j])
         IN <<SubSeq(text, 1, i - 1)>>
              \o places(SubSeq(text, i + 1, Len(text)))

\* parser.py 538-546: sign, one or two digits, and up to two times a
\* delimiter with at most two digits
matches_places(parts) ==
    /\ Len(parts) \in 1..3
    /\ Len(parts[1]) \in 1..2
    /\ \A k \in 1..Len(parts) : Len(parts[k]) <= 2 /\ AllDigits(parts[k])

\* parser.py 597-599: sign, zeros, and up to two times a delimiter with
\* zeros
matches_zeros(parts) ==
    /\ Len(parts) \in 1..3
    /\ Len(parts[1]) >= 1
    /\ \A k \in 1..Len(parts) : \A i \in 1..Len(parts[k]) :
          parts[k][i] = "0"

rjust(text) == IF Len(text) < 2 THEN <<"0">> \o text ELSE text

\* parser.py 551-572: one place of the offset
place_code(place, mandatory) ==
    IF ~mandatory /\ place = <<>> THEN 43
    ELSE IF Len(place) < 2 THEN 42 ELSE 0

place_value(place) == IF place = <<>> THEN <<"0", "0">> ELSE rjust(place)

report_if(s, defs, error_code, line) ==
    IF error_code = 0 THEN s ELSE add_to_report(s, defs, error_code, line)

PlusZero == <<"+", "0", "0", ":", "0", "0", ":", "0", "0">>

NoValue == <<"N", "o", "n", "e">>

parse_utcoffset_mismatch(s0, defs, utcoffset, line_num) ==
    [s |-> add_to_report(s0, defs, 47, line_num), value |-> NoValue,
     raised |-> "ValueError"]

parse_utcoffset(s0, defs, utcoffset0, line_num) ==
    LET bad       == bad_seps(utcoffset0)
        s1        == add_to_report_times([s0 EXCEPT !.ok = TRUE], defs, 41,
                                         line_num, Cardinality(bad))
        utcoffset == [i \in 1..Len(utcoffset0) |->
                        IF utcoffset0[i] \in bad THEN ":"
                        ELSE utcoffset0[i]]
        sign0     == sign_of(utcoffset)
        parts     == places(SubSeq(utcoffset, Len(sign0) + 1,
                                   Len(utcoffset)))
        part(k)   == IF k <= Len(parts) THEN parts[k] ELSE <<>>
    IN IF matches_places(parts)
       THEN LET hour   == place_value(part(1))
                minute == place_value(part(2))
                second == place_value(part(3))
                s2     == report_if(s1, defs, place_code(part(1), TRUE),
                                    line_num)
                s3     == report_if(s2, defs, place_code(part(2), FALSE),
                                    line_num)
                s4     == report_if(s3, defs, place_code(part(3), FALSE),
                                    line_num)
                zero   == /\ hour = <<"0", "0">> /\ minute = <<"0", "0">>
                          /\ second = <<"0", "0">>
                code   == IF zero
                          THEN IF sign0 # <<"+">> THEN 45 ELSE 0
                          ELSE IF sign0 = <<>> THEN 44
                          ELSE IF sign0 = <<"+", "-">> THEN 45 ELSE 0
                sign   == IF zero \/ sign0 = <<>> THEN <<"+">>
                          ELSE IF sign0 = <<"+", "-">> THEN <<"-">>
                          ELSE sign0
                s5     == report_if(s4, defs, code, line_num)
            IN IF ~s5.ok
               THEN [s |-> s5, value |-> NoValue, raised |-> "ValueError"]
               ELSE IF int(hour) > 23 \/ int(minute) > 59
                          \/ int(second) > 59
               THEN [s |-> add_to_report(s5, defs, 47, line_num),
                     value |-> NoValue, raised |-> "ValueError"]
               ELSE [s |-> s5,
                     value |-> sign \o hour \o <<":">> \o minute
                                 \o <<":">> \o second,
                     raised |-> "None"]
       ELSE IF matches_zeros(parts)
       THEN LET s2 == add_to_report(s1, defs, 46, line_num)
            IN IF ~Severe(defs, 46)
               THEN [s |-> s2, value |-> PlusZero, raised |-> "None"]
               ELSE [s |-> s2, value |-> NoValue, raised |-> "ValueError"]
       ELSE parse_utcoffset_mismatch(s1, defs, utcoffset, line_num)

InitOffset ==
    /\ x_pc = "ready" /\ x_lineno = 0 /\ x_parent = NoTable
    /\ x_pending = 0
    /\ x_tables = <<>> /\ x_heap = <<>> /\ x_count = <<>> /\ x_line = <<>>
    /\ x_errors = <<>> /\ x_warnings = <<>> /\ x_success = TRUE
    /\ x_ops = 0
    /\ x_last = [op |-> "none", utcoffset |-> <<>>, value |-> NoValue,
                 raised |-> "None"]
    /\ r_defs \in OffsetDefinitions /\ r_batch = EmptyBatch
    /\ r_report = <<>> /\ r_status = <<>> /\ r_contributors = <<>>
    /\ r_runfile = <<>> /\ r_last = <<>>
    /\ NoReportDirectory

ParseUtcoffset ==
    /\ x_pc = "ready"
    /\ \E utcoffset \in UtcOffsets, line_num \in 1..MaxLines :
       \E r \in {parse_utcoffset(Self, r_defs, utcoffset, line_num)} :
          /\ Store(r.s)
          /\ x_lineno' = line_num
          /\ x_last' = [op |-> "parse_utcoffset", utcoffset |-> utcoffset,
                        value |-> r.value, raised |-> r.raised]
    /\ x_pc' = "done"
    /\ UNCHANGED <<x_parent, x_pending, x_ops>>
    /\ ParseFrame

(***************************************************************************)
(* ReportBuilder._processing_run_statistics (report.py 209-293) over the   *)
(* operator reports of the working directory.  A report is the sequence of *)
(* its rows below the header; a dictionary is a function on its keys.      *)
(***************************************************************************)
MaxReports == 2     \* operator reports in the directory
MaxRows    == 2     \* rows of one operator report

StatRows ==
    { [status |-> "F", type |-> "Error", code |-> 1, msg |-> "m1",
       agency |-> "A", filename |-> "f1"],
      [status |-> "F", type |-> "Error", code |-> 1, msg |-> "m2",
       agency |-> "A", filename |-> "f1"],
      [status |-> "F", type |-> "Error", code |-> 209, msg |-> "m3",
       agency |-> "A", filename |-> "f1"],
      [status |-> "P", type |-> "Warning", code |-> 2, msg |-> "m4",
       agency |-> "A", filename |-> "f1"],
      [status |-> "F", type |-> "Error", code |-> 1, msg |-> "m1",
       agency |-> "", filename |-> "f2"],
      [status |-> "P", type |-> "Warning", code |-> 2, msg |-> "m4",
       agency |-> "", filename |-> "f2"] }

EmptyDict == [k \in {} |-> {}]

Get(dict, key, default) == IF key \in DOMAIN dict THEN dict[key] ELSE default

Put(dict, key, value) ==
    [k \in DOMAIN dict \cup {key} |-> IF k = key THEN value ELSE dict[k]]

\* report.py 238
agency_of(line) == IF line.agency = "" THEN "UNKNOWN" ELSE line.agency

\* report.py 237-259: the rows of one report
RECURSIVE scan_rows(_, _)
scan_rows(st, rows) ==
    IF rows = <<>> THEN st
    ELSE LET line     == Head(rows)
             agency   == agency_of(line)
             filename == line.filename
             files    == Get(st.local, agency, EmptyDict)
             messages == Get(files, filename, {})
             failing  == /\ line.status # "P"
                         /\ line.type = "Error" /\ line.code # 209
                         /\ filename \notin Get(st.passed, agency, {})
         IN scan_rows(
              [passed |-> IF line.status = "P"
                          THEN Put(st.passed, agency,
                                   Get(st.passed, agency, {})
                                       \cup {filename})
                          ELSE st.passed,
               local  |-> Put(st.local, agency,
                              Put(files, filename,
                                  IF failing THEN messages \cup {line.msg}
                                  ELSE messages))],
              Tail(rows))

\* report.py 274-277: the first file of files_to_errors that has passed
\* is assigned into files_to_fixes[agency], which is a set
fix_raises(passed, errors) ==
    \E agency \in DOMAIN errors :
        \E filename \in DOMAIN errors[agency] :
            filename \in Get(passed, agency, {})

\* report.py 261-272: the defaults set while looking for fixed errors
fix_defaults(st, errors) ==
    [passed |-> [a \in DOMAIN st.passed \cup DOMAIN errors |->
                    Get(st.passed, a, {})],
     fixes  |-> [a \in DOMAIN st.fixes \cup DOMAIN errors |-> {}],
     local  |-> [a \in DOMAIN st.local \cup DOMAIN errors |->
                    LET files == Get(st.local, a, EmptyDict)
                    IN [f \in DOMAIN files
                              \cup DOMAIN Get(errors, a, EmptyDict) |->
                           Get(files, f, {})]]]

\* report.py 283-291: the new errors of the current report
merge_errors(errors, local) ==
    [a \in DOMAIN errors \cup DOMAIN local |->
        LET old == Get(errors, a, EmptyDict)
            new == Get(local, a, EmptyDict)
        IN [f \in DOMAIN old \cup {g \in DOMAIN new : new[g] # {}} |->
               Get(old, f, {}) \cup Get(new, f, {})]]

ListingOrders(n) ==
    {p \in [1..n -> 1..n] : \A i, j \in 1..n : p[i] = p[j] => i = j}

InitStatsIdle ==
    /\ s_pc = "idle" /\ s_reports = <<>> /\ s_order = <<>> /\ s_i = 0
    /\ s_passed = <<>> /\ s_fixes = <<>> /\ s_errors = <<>>

InitStats ==
    /\ s_pc = "called"
    /\ s_reports \in SeqsUpTo(SeqsUpTo(StatRows, MaxRows), MaxReports)
    /\ s_order = <<>> /\ s_i = 0
    /\ s_passed = EmptyDict /\ s_fixes = EmptyDict /\ s_errors = EmptyDict

StatsFrame == UNCHANGED <<moreVars, procVars, orchVars, parseVars, reportVars>>

\* report.py 228: os.listdir names the reports in arbitrary order
FindOperatorReports ==
    /\ s_pc = "called"
    /\ s_order' \in ListingOrders(Len(s_reports))
    /\ s_pc' = "scanning"
    /\ UNCHANGED <<s_reports, s_i, s_passed, s_fixes, s_errors>>
    /\ StatsFrame

\* report.py 229-291: one iteration of the loop over the reports
ScanReport ==
    /\ s_pc = "scanning" /\ s_i < Len(s_order)
    /\ \E st \in {scan_rows([passed |-> s_passed, local |-> EmptyDict],
                            s_reports[s_order[s_i + 1]])} :
          IF fix_raises(st.passed, s_errors)
          THEN /\ s_pc' = "TypeError"
               /\ s_passed' = st.passed
               /\ UNCHANGED <<s_fixes, s_errors>>
          ELSE \E fixed \in {fix_defaults(
                               [passed |-> st.passed, fixes |-> s_fixes,
                                local |-> st.local], s_errors)} :
                  /\ s_pc' = "scanning"
                  /\ s_passed' = fixed.passed
                  /\ s_fixes' = fixed.fixes
                  /\ s_errors' = merge_errors(s_errors, fixed.local)
    /\ s_i' = s_i + 1
    /\ UNCHANGED <<s_reports, s_order>>
    /\ StatsFrame

\* report.py 293
ReturnStatistics ==
    /\ s_pc = "scanning" /\ s_i = Len(s_order)
    /\ s_pc' = "returned"
    /\ UNCHANGED <<s_reports, s_order, s_i, s_passed, s_fixes, s_errors>>
    /\ StatsFrame

\* report.py 584-589 in write_email_report: the counts of one agency from
\* the statistics returned
passed_count(passed_files, agency) == Cardinality(Get(passed_files, agency, {}))

fixed_count(fixed_files, agency) == Cardinality(Get(fixed_files, agency, {}))

failed_count(failed_files, agency) ==
    Cardinality(DOMAIN Get(failed_files, agency, EmptyDict))

total_count(passed_files, fixed_files, failed_files, agency) ==
    passed_count(passed_files, agency) + fixed_count(fixed_files, agency)
        + failed_count(failed_files, agency)

(***************************************************************************)
(* ExtendedCSV._determine_version (parser.py 930-974) on a parsed document *)
(* and a version-keyed map of table groups.  `versions` is a set of        *)
(* strings: the order in which one run iterates over it is fixed within    *)
(* the run and differs between runs (string hashes are seeded per          *)
(* process).                                                               *)
(***************************************************************************)
MaxVersionRuns == 2    \* runs on the same document and schema

Versions == {"1", "2", "3"}

DataTable == <<"d">>

VersionTables == {<<"A">>, <<"B">>, <<"C">>}

\* every group holds the key data_table next to its table names
Schemas ==
    UNION {[keys -> {group \cup {DataTable} : group \in SUBSET VersionTables}] :
              keys \in {{"1"}, {"1", "2"}, {"1", "3"}, Versions}}

VersionDefinitions == {[c \in {13} |-> t] : t \in {"Error", "Warning"}}

\* parser.py 948-955: the tables of a version that no other version has
uniques(schema, version) ==
    schema[version] \ UNION {schema[other] : other \in DOMAIN schema \ {version}}

\* parser.py 957-961: the tables of the document that are unique to version
candidates(schema, extcsv, version) ==
    {table \in DOMAIN extcsv : table \in uniques(schema, version)}

\* parser.py 963-964; "ZeroDivisionError" when the version has no unique table
rating(schema, extcsv, version) ==
    IF uniques(schema, version) = {} THEN "ZeroDivisionError"
    ELSE [num |-> Cardinality(candidates(schema, extcsv, version)),
          den |-> Cardinality(uniques(schema, version))]

\* a / b <= c / d
rating_le(a, b) == a.num * b.den <= b.num * a.den

\* parser.py 967: max(candidate_scores)
best_match(schema, extcsv) ==
    CHOOSE r \in {rating(schema, extcsv, v) : v \in DOMAIN schema} :
        \A v \in DOMAIN schema : rating_le(rating(schema, extcsv, v), r)

\* parser.py 972-974: the first version, in iteration order, whose rating
\* is the best one
first_best(schema, extcsv, order) ==
    LET best == best_match(schema, extcsv)
        hits == {i \in 1..Len(order) :
                    /\ rating_le(best, rating(schema, extcsv, order[i]))
                    /\ rating_le(rating(schema, extcsv, order[i]), best)}
    IN order[CHOOSE i \in hits : \A j \in hits : i <= j]

\* parser.py 930-974; order is the iteration order of `versions`
determine_version(s, defs, schema, order) ==
    IF \E v \in DOMAIN schema : uniques(schema, v) = {}
    THEN [self |-> [s EXCEPT !.raised = "ZeroDivisionError"],
          returned |-> "None"]
    ELSE IF best_match(schema, s.extcsv).num = 0
    THEN [self |-> [add_to_report(s, defs, 13, NoLine)
                       EXCEPT !.raised = "NonStandardDataError"],
          returned |-> "None"]
    ELSE [self |-> s, returned |-> first_best(schema, s.extcsv, order)]

\* the orders in which a set can be iterated
IterationOrders(S) ==
    {order \in SeqsUpTo(S, Cardinality(S)) :
        Len(order) = Cardinality(S) /\ Range(order) = S}

RECURSIVE DocumentWith(_, _)
DocumentWith(tables, line) ==
    IF tables = <<>> THEN NewExtendedCSV(EmptyBatch)
    ELSE init_table(DocumentWith(SubSeq(tables, 1, Len(tables) - 1), line - 2),
                    tables[Len(tables)], << <<"x">> >>, line)

\* the documents with some of the tables A, B, C, in this order
VersionDocuments ==
    {DocumentWith(SelectSeq(<< <<"A">>, <<"B">>, <<"C">> >>,
                            LAMBDA t : t \in present),
                  2 * Cardinality(present) - 1) :
        present \in SUBSET VersionTables}

InitVersion ==
    /\ r_defs \in VersionDefinitions
    /\ v_schema \in Schemas
    /\ v_runs = <<>>
    /\ \E s \in VersionDocuments :
          /\ x_tables = s.extcsv /\ x_heap = s.heap
          /\ x_count = s.table_count /\ x_line = s.line_num
          /\ x_lineno = 2 * Cardinality(DOMAIN s.extcsv)
    /\ x_errors = <<>> /\ x_warnings = <<>> /\ r_batch = EmptyBatch
    /\ x_success = TRUE
    /\ x_pc = "ready" /\ x_parent = NoTable /\ x_pending = 0 /\ x_ops = 0
    /\ x_last = [op |-> "none", raised |-> "None"]
    /\ r_report = <<>> /\ r_status = <<>> /\ r_contributors = <<>>
    /\ r_runfile = <<>> /\ r_last = <<>>
    /\ NoReportDirectory

\* one run: the document is parsed anew and its version is determined
DetermineVersion ==
    /\ x_pc = "ready" /\ Len(v_runs) < MaxVersionRuns
    /\ \E order \in IterationOrders(DOMAIN v_schema) :
       \E r \in {determine_version(
                    [Self EXCEPT !.reports = EmptyBatch, !.errors = <<>>,
                                 !.warnings = <<>>, !.ok = TRUE],
                    r_defs, v_schema, order)} :
          /\ Store(r.self)
          /\ x_last' = [op |-> "_determine_version", raised |-> r.self.raised,
                        returned |-> r.returned, order |-> order]
          /\ v_runs' = Append(v_runs, [raised |-> r.self.raised,
                                       returned |-> r.returned,
                                       messages |-> Messages(r.self.reports)])
    /\ UNCHANGED <<x_pc, x_lineno, x_parent, x_pending, x_ops, v_schema,
                   b_pc, b_run, b_open>>
    /\ UNCHANGED <<procVars, orchVars, statsVars, r_defs, r_report, r_status,
                   r_contributors, r_runfile, r_last, r_root, r_run, r_dir,
                   r_seen, r_added>>

(***************************************************************************)
(* The tables of a document over its life: init_table, remove_table        *)
(* (parser.py 283-300) and validate_dataset_tables (parser.py 976-1044)    *)
(* called on a parsed document.  The schema of the dataset is fixed: its   *)
(* occurrence and row ranges are held as the bounds parse_integer_range    *)
(* returns for them.                                                       *)
(***************************************************************************)
TableNames == {<<"A">>, <<"B">>}

CommonTables == {<<"K">>}

\* one required table type A: one occurrence, one or two rows
NoncoreSchema ==
    (<<"A">> :> [has_required_fields |-> TRUE,
                 definition |-> [required_fields |-> << <<"x">> >>,
                                 optional_fields |-> <<>>],
                 occurrences |-> [lower |-> 1, upper |-> 1],
                 rows |-> [lower |-> 1, upper |-> 2]])

SchemaOrder == << <<"A">> >>

LifecycleCodes == ParserCodes \cup {3, 4, 11, 12, 26, 27, 28, 29}

LifecycleDefinitions ==
    {[c \in LifecycleCodes |-> t] : t \in {"Error", "Warning"}}

\* table_name.rstrip('0123456789_')
table_type(table_name) == rstrip(table_name, Range(Digits) \cup {"_"})

\* parser.py 213: self._line_num.get(table, None)
line_num(s, table) ==
    IF table \in DOMAIN s.line_num THEN s.line_num[table] ELSE NoLine

\* parser.py 223: self._table_count.get(table_type, 0)
table_count(s, type) ==
    IF type \in DOMAIN s.table_count THEN s.table_count[type] ELSE 0

\* dict.pop(key) and del dict[key] on a key that is present
pop(dict, key) == [k \in DOMAIN dict \ {key} |-> dict[k]]

\* parser.py 283-300
remove_table(s, table_name) ==
    LET type == table_type(table_name)
    IN IF table_name \notin DOMAIN s.extcsv
       THEN [s EXCEPT !.raised = "KeyError"]
       ELSE IF table_name \notin DOMAIN s.line_num
       THEN [s EXCEPT !.extcsv = pop(@, table_name), !.raised = "KeyError"]
       ELSE IF type \notin DOMAIN s.table_count
       THEN [s EXCEPT !.extcsv = pop(@, table_name),
                      !.line_num = pop(@, table_name),
                      !.raised = "KeyError"]
       ELSE [s EXCEPT !.extcsv = pop(@, table_name),
                      !.line_num = pop(@, table_name),
                      !.table_count =
                          IF @[type] > 1 THEN [@ EXCEPT ![type] = @ - 1]
                          ELSE pop(@, type)]

\* the keys of self.extcsv, in the order of their header lines
RECURSIVE keys_in_order(_, _)
keys_in_order(s, names) ==
    IF names = {} THEN <<>>
    ELSE LET first == CHOOSE n \in names :
                          \A other \in names :
                              line_num(s, n) <= line_num(s, other)
         IN <<first>> \o keys_in_order(s, names \ {first})

\* parser.py 1000-1001: error 3 for each missing table
RECURSIVE report_missing(_, _, _)
report_missing(s, defs, missing_tables) ==
    IF missing_tables = <<>> THEN s
    ELSE report_missing(add_to_report(s, defs, 3, NoLine), defs,
                        Tail(missing_tables))

\* parser.py 671-699
RECURSIVE check_table_occurrences(_, _, _, _)
check_table_occurrences(s, defs, schema, types) ==
    IF types = <<>> THEN s
    ELSE LET type  == Head(types)
             count == table_count(s, type)
             range == schema[type].occurrences
             s1 == IF count < range.lower
                   THEN add_to_report(s, defs, 26,
                            line_num(s, type \o <<"_">> \o str(count)))
                   ELSE s
             s2 == IF count > range.upper
                   THEN add_to_report(s1, defs, 27,
                            line_num(s, type \o <<"_">>
                                             \o str(range.upper + 1)))
                   ELSE s1
         IN check_table_occurrences(s2, defs, schema, Tail(types))

\* parser.py 701-735
check_table_height(s, defs, table, definition, num_rows) ==
    LET headerline == line_num(s, table)
    IN IF num_rows = 0
       THEN IF definition.occurrences.lower # 0
            THEN add_to_report(s, defs, 11, headerline)
            ELSE add_to_report(s, defs, 12, headerline)
       ELSE IF num_rows < definition.rows.lower
       THEN add_to_report(s, defs, 28, headerline)
       ELSE IF num_rows > definition.rows.upper
       THEN add_to_report(s, defs, 29, headerline)
       ELSE s

\* parser.py 1005-1016: the tables of the schema that are present
RECURSIVE validate_present(_, _, _, _)
validate_present(s, defs, schema, present_tables) ==
    IF present_tables = <<>> \/ s.raised # "None" THEN s
    ELSE LET table == Head(present_tables)
             body  == s.extcsv[table]
             definition == schema[table_type(table)]
         IN IF body.keys = <<>>
            THEN [s EXCEPT !.raised = "StopIteration"]
            ELSE LET num_rows == Len(s.heap[body.col[body.keys[1]]])
                     checked == check_field_validity(s, defs, table,
                                                     definition.definition)
                 IN validate_present(
                        IF checked.raised # "None" THEN checked
                        ELSE check_table_height(checked, defs, table,
                                                definition, num_rows),
                        defs, schema, Tail(present_tables))

\* parser.py 1018-1023: error 4 and del self.extcsv[table]
RECURSIVE delete_extras(_, _, _, _)
delete_extras(s, defs, optional_tables, extra_tables) ==
    IF extra_tables = <<>> THEN s
    ELSE delete_extras(
             IF table_type(Head(extra_tables)) \notin optional_tables
             THEN [add_to_report(s, defs, 4, NoLine)
                      EXCEPT !.extcsv = pop(@, Head(extra_tables))]
             ELSE s,
             defs, optional_tables, Tail(extra_tables))

\* parser.py 976-1044 with the schema already determined; line 1030 reads
\* observations_table, a name that is bound nowhere: NameError
validate_dataset_tables(s, defs, schema, types) ==
    LET required_tables ==
            SelectSeq(types, LAMBDA t : schema[t].has_required_fields)
        optional_tables ==
            {t \in Range(types) : ~schema[t].has_required_fields}
        keys == keys_in_order(s, DOMAIN s.extcsv)
        missing_tables ==
            SelectSeq(required_tables, LAMBDA t : t \notin DOMAIN s.extcsv)
        present_tables ==
            SelectSeq(keys, LAMBDA t : table_type(t) \in DOMAIN schema)
        extra_tables ==
            SelectSeq(keys, LAMBDA t :
                table_type(t) \notin Range(required_tables) \cup CommonTables)
        s1 == report_missing(s, defs, missing_tables)
        s2 == check_table_occurrences(s1, defs, schema, types)
        s3 == validate_present(s2, defs, schema, present_tables)
    IN IF s3.raised # "None" THEN s3
       ELSE [delete_extras(s3, defs, optional_tables, extra_tables)
                EXCEPT !.raised = "NameError"]

\* the documents the constructor returns for a file with the tables named,
\* each with the field x and one value row
RECURSIVE LifecycleDocument(_, _)
LifecycleDocument(defs, tables) ==
    IF tables = <<>> THEN NewExtendedCSV(EmptyBatch)
    ELSE LET before == LifecycleDocument(defs,
                           SubSeq(tables, 1, Len(tables) - 1))
             line   == 3 * Len(tables) - 2
             named  == init_table(before, tables[Len(tables)],
                                  << <<"x">> >>, line)
         IN add_values_to_table(
                named, defs,
                init_table_name(before.table_count, tables[Len(tables)]),
                << <<"1">> >>, line + 2)

InitLifecycle ==
    /\ r_defs \in LifecycleDefinitions
    /\ \E tables \in SeqsUpTo(TableNames \cup CommonTables, 2) :
       \E s \in {LifecycleDocument(r_defs, tables)} :
          /\ x_tables = s.extcsv /\ x_heap = s.heap
          /\ x_count = s.table_count /\ x_line = s.line_num
          /\ x_errors = s.errors /\ x_warnings = s.warnings
          /\ r_batch = s.reports /\ x_success = s.ok
          /\ x_lineno = 3 * Len(tables)
    /\ x_pc = "ready" /\ x_parent = NoTable /\ x_pending = 0
    /\ x_ops = 0
    /\ x_last = [op |-> "none", table |-> <<>>, raised |-> "None"]
    /\ r_report = <<>> /\ r_status = <<>> /\ r_contributors = <<>>
    /\ r_runfile = <<>> /\ r_last = <<>>
    /\ NoReportDirectory

LifecycleFrame ==
    /\ UNCHANGED <<x_parent, x_pending>>
    /\ ParseFrame

InitTableCall ==
    /\ x_pc = "ready" /\ x_ops < MaxOps
    /\ \E table_name \in TableNames :
       \E s \in {init_table([Self EXCEPT !.ok = TRUE], table_name,
                            << <<"x">> >>, x_lineno + 1)} :
          /\ Store(s)
          /\ x_last' = [op |-> "init_table", table |-> table_name,
                        raised |-> "None"]
    /\ x_lineno' = x_lineno + 2
    /\ x_ops' = x_ops + 1
    /\ UNCHANGED x_pc
    /\ LifecycleFrame

RemoveTable ==
    /\ x_pc = "ready" /\ x_ops < MaxOps
    /\ \E table_name \in DOMAIN x_tables :
       \E s \in {remove_table([Self EXCEPT !.ok = TRUE], table_name)} :
          /\ Store(s)
          /\ x_pc' = IF s.raised = "None" THEN "ready" ELSE "raised"
          /\ x_last' = [op |-> "remove_table", table |-> table_name,
                        raised |-> s.raised]
    /\ x_ops' = x_ops + 1
    /\ UNCHANGED x_lineno
    /\ LifecycleFrame

ValidateDatasetTables ==
    /\ x_pc = "ready" /\ x_ops < MaxOps
    /\ \E s \in {validate_dataset_tables([Self EXCEPT !.ok = TRUE], r_defs,
                                         NoncoreSchema, SchemaOrder)} :
          /\ Store(s)
          /\ x_pc' = "raised"
          /\ x_last' = [op |-> "validate_dataset_tables", table |-> <<>>,
                        raised |-> s.raised]
    /\ x_ops' = x_ops + 1
    /\ UNCHANGED x_lineno
    /\ LifecycleFrame

(***************************************************************************)
(* Two ReportBuilders made on the same working directory without a run     *)
(* number (report.py 97-100), each then opening its operator report        *)
(* (report.py 516-521).  The constructor reads the directory; the file is  *)
(* created only by the first write.  Both run on the day Date1.            *)
(***************************************************************************)
Builders == {1, 2}

\* report.py 323-331
operator_report_filepath(run) ==
    OperatorReportPrefix \o Date1 \o RunTag \o str(run)
        \o <<".", "c", "s", "v">>

InitBuilders ==
    /\ r_root = "dir"
    /\ r_dir \in SUBSET DirectoryNames
    /\ r_run = 0
    /\ r_last = [op |-> "none", run |-> 0]
    /\ r_defs = <<>> /\ r_batch = <<>> /\ r_report = <<>> /\ r_status = <<>>
    /\ r_contributors = <<>> /\ r_runfile = <<>> /\ r_seen = <<>>
    /\ r_added = <<>>
    /\ b_pc = [b \in Builders |-> "new"]
    /\ b_run = [b \in Builders |-> 0]
    /\ b_open = [b \in Builders |-> <<>>]

BuildersFrame ==
    UNCHANGED <<procVars, orchVars, parseVars, statsVars, v_schema, v_runs,
                r_defs, r_batch, r_report, r_status, r_contributors,
                r_runfile, r_last, r_root, r_run, r_seen, r_added>>

\* report.py 60-103: ReportBuilder(root) with run = 0
Construct ==
    /\ \E b \in Builders :
          /\ b_pc[b] = "new"
          /\ b_run' = [b_run EXCEPT ![b] = run_number(r_root, 0, r_dir)]
          /\ b_pc' = [b_pc EXCEPT ![b] = "constructed"]
    /\ UNCHANGED <<r_dir, b_open>>
    /\ BuildersFrame

\* report.py 516-521: the first write_operator_report of a builder opens
\* its file for writing, which creates it
OpenOperatorReport ==
    /\ \E b \in Builders :
          /\ b_pc[b] = "constructed"
          /\ b_open' = [b_open EXCEPT
                           ![b] = operator_report_filepath(b_run[b])]
          /\ r_dir' = r_dir \cup {operator_report_filepath(b_run[b])}
          /\ b_pc' = [b_pc EXCEPT ![b] = "writing"]
    /\ UNCHANGED b_run
    /\ BuildersFrame

ProcessInit ==
    InitProcess /\ InitOrchIdle /\ InitParseIdle /\ InitReportIdle /\ InitStatsIdle
        /\ InitMoreIdle

ProcessNext == ProcessData

SpecProcess == ProcessInit /\ [][ProcessNext]_vars

OrchInit ==
    InitOrch /\ InitProcessIdle /\ InitParseIdle /\ InitReportIdle /\ InitStatsIdle
        /\ InitMoreIdle

OrchNext == OrchStart \/ OrchFile \/ OrchFinish

SpecOrch == OrchInit /\ [][OrchNext]_vars

ParseInit ==
    InitParse /\ InitProcessIdle /\ InitOrchIdle /\ InitStatsIdle
        /\ InitMoreIdle

ParseNext == ParseLine \/ ParseHeader \/ ParseEnd

SpecParse == ParseInit /\ [][ParseNext]_vars

TableInit ==
    InitTable /\ InitProcessIdle /\ InitOrchIdle /\ InitStatsIdle
        /\ InitMoreIdle

TableNext == AddValues \/ CheckFieldValidity

SpecTable == TableInit /\ [][TableNext]_vars

ReportInit ==
    InitReport /\ InitProcessIdle /\ InitOrchIdle /\ InitParseIdle /\ InitStatsIdle
        /\ InitMoreIdle

ReportNext == AddMessage \/ RecordPassingFile \/ RecordFailingFile

SpecReport == ReportInit /\ [][ReportNext]_vars

RunInit ==
    InitRun /\ InitProcessIdle /\ InitOrchIdle /\ InitParseIdle /\ InitStatsIdle
        /\ InitMoreIdle

RunNext == NewReportBuilder

SpecRun == RunInit /\ [][RunNext]_vars

StatsInit ==
    InitStats /\ InitProcessIdle /\ InitOrchIdle /\ InitParseIdle /\ InitReportIdle
        /\ InitMoreIdle

StatsNext == FindOperatorReports \/ ScanReport \/ ReturnStatistics

SpecStats == StatsInit /\ [][StatsNext]_vars

VersionInit ==
    InitVersion /\ InitProcessIdle /\ InitOrchIdle /\ InitStatsIdle
        /\ InitBuildersIdle

VersionNext == DetermineVersion

SpecVersion == VersionInit /\ [][VersionNext]_vars

LifecycleInit ==
    InitLifecycle /\ InitProcessIdle /\ InitOrchIdle /\ InitStatsIdle
        /\ InitMoreIdle

LifecycleNext == InitTableCall \/ RemoveTable \/ ValidateDatasetTables

SpecLifecycle == LifecycleInit /\ [][LifecycleNext]_vars

BuildersInit ==
    InitBuilders /\ InitProcessIdle /\ InitOrchIdle /\ InitParseIdle
        /\ InitStatsIdle /\ InitVersionIdle

BuildersNext == Construct \/ OpenOperatorReport

SpecBuilders == BuildersInit /\ [][BuildersNext]_vars

OffsetInit ==
    InitOffset /\ InitProcessIdle /\ InitOrchIdle /\ InitStatsIdle
        /\ InitMoreIdle

OffsetNext == ParseUtcoffset

SpecOffset == OffsetInit /\ [][OffsetNext]_vars

(***************************************************************************)
(* Claims about process_data, under SpecProcess.                           *)
(***************************************************************************)
RegistrySaves ==
    {"save_data_record", "save_deployment", "save_deployment_dates",
     "save_instrument"}
AllWrites == RegistrySaves \cup {"copy_to_waf", "index_data_record"}

\* C1: in verify-only mode a process_data call performs no write to any
\* external store: no registry save, no file copy, no search-index write.
C1_VerifyOnlyWritesNothing ==
    (p_last.called /\ p_last.verify_only) => Range(p_last.writes) = {}

\* C1: a verify-only call that found the deployment, ran every check and
\* returned.
C1_VerifyOnlyCallReturned ==
    /\ p_last.called /\ p_last.verify_only
    /\ p_last.result = "True"

\* C2: a process_data call that returns False has performed no registry
\* save and no search-index write.
C2_RejectedFileWritesNothing ==
    (p_last.called /\ p_last.result = "False") =>
        Range(p_last.writes) \cap (RegistrySaves \cup {"index_data_record"}) = {}

\* C2: a call that returned False after its cross-checks ran.
C2_RejectedAfterChecks ==
    /\ p_last.called /\ p_last.result = "False"
    /\ p_last.errors # <<>>

\* C4: when an accepted file is persisted, the search index record is
\* written if and only if the index held no version for it or the incoming
\* data_generation_version is strictly greater than the indexed one.
C4_IndexedOnlyWhenNewer ==
    (p_last.called /\ p_last.result = "True" /\ ~p_last.verify_only) =>
        ("index_data_record" \in Range(p_last.writes)
            <=> (\/ p_last.indexed_before.kind = "none"
                 \/ p_last.incoming.val > p_last.indexed_before.val))

\* C4: a file was persisted while the index already held a version for it.
C4_PersistedOverIndexed ==
    /\ p_last.called /\ p_last.result = "True" /\ ~p_last.verify_only
    /\ p_last.indexed_before.kind = "num"

(***************************************************************************)
(* Claims about orchestrate, under SpecOrch.                               *)
(***************************************************************************)
Handled == {o_order[k].file : k \in 1..Len(o_order)}
FailedEntry(e) == e.validated # "True" \/ e.persist = "raised"

SevereAdded ==
    \E i \in 1..Len(Messages(r_batch)) : Messages(r_batch)[i].type # "Warning"

\* C5: the constructor raises NonStandardDataError if and only if a message
\* added to the report during parsing was severe; otherwise it returns the
\* document; every message added is still in the report batch.
C5_RaisesIffSevereMessage ==
    x_pc \in {"ready", "raised"} =>
        /\ (x_last.raised = "NonStandardDataError") <=> SevereAdded
        /\ (x_pc = "ready") <=> ~SevereAdded
        /\ Len(Messages(r_batch)) = Len(x_errors) + Len(x_warnings)

\* C5: the constructor raised NonStandardDataError with a severe message
\* and a warning in the batch.
C5_ParseRaisedWithMessagesKept ==
    /\ x_pc = "raised" /\ x_last.raised = "NonStandardDataError"
    /\ x_errors # <<>> /\ x_warnings # <<>>

InstanceNames(T, k) == {T} \cup {T \o <<"_">> \o str(i) : i \in 2..k}

\* C7: at every point of parsing, for every base table type T counted k
\* times the document holds exactly the instances T, T_2, ..., T_k, and
\* every instance has a recorded header line number.
C7_InstanceNamesDense ==
    /\ \A T \in DOMAIN x_count : x_count[T] >= 1
    /\ DOMAIN x_tables =
           UNION {InstanceNames(T, x_count[T]) : T \in DOMAIN x_count}
    /\ DOMAIN x_line = DOMAIN x_tables
    /\ \A name \in DOMAIN x_line : x_line[name] \in 1..x_lineno

\* C7: a file in which table A occurs twice has been parsed.
C7_SecondInstanceParsed ==
    /\ x_pc = "ready"
    /\ TableA \in DOMAIN x_count /\ x_count[TableA] = 2
    /\ (TableA \o <<"_", "2">>) \in DOMAIN x_tables
    /\ x_line[TableA] < x_line[TableA \o <<"_", "2">>]

RECURSIVE AsCommas(_, _)
AsCommas(line, separators) ==
    IF separators = <<>> THEN line
    ELSE AsCommas(replace(line, Head(separators), <<",">>),
                  Tail(separators))

\* C8: for a line that holds non-standard separators the row used after
\* the repair is the line tokenised with every such separator read as a
\* comma, and error 16 is reported for that line.
C8_RepairKeepsEveryField ==
    (/\ x_last.op = "line"
     /\ \E i \in 1..Len(BadSeps) : contains(x_last.line, BadSeps[i])) =>
        /\ x_last.raised = "None"
        /\ x_last.row = csv_row(AsCommas(x_last.line, BadSeps))
        /\ \E i \in 1..Len(Messages(r_batch)) :
              /\ Messages(r_batch)[i].code = 16
              /\ Messages(r_batch)[i].line = x_lineno

\* C8: a line with one kind of separator was repaired.
C8_LineRepaired ==
    /\ x_last.op = "line" /\ x_last.separators = << <<";">> >>
    /\ x_last.row = << <<"x">>, <<"y">> >>

(***************************************************************************)
(* Claims about the table operations, under SpecTable.                     *)
(***************************************************************************)
Column(extcsv, heap, table, field) == heap[extcsv[table].col[field]]

\* C6: after parsing and after every later add_values_to_table and
\* check_field_validity, all columns of each table have the same length.
C6_ColumnsEqualLength ==
    \A table \in DOMAIN x_tables :
        \A f, g \in Range(x_tables[table].keys) :
            Len(Column(x_tables, x_heap, table, f))
                = Len(Column(x_tables, x_heap, table, g))

\* C6: check_field_validity inserted missing required fields into a table
\* that holds a value row.
C6_MissingFieldsInserted ==
    /\ x_last.op = "check_field_validity"
    /\ \E i \in 1..Len(Messages(r_batch)) : Messages(r_batch)[i].code = 5
    /\ \E f \in Range(x_tables[TableA].keys) :
          Len(Column(x_tables, x_heap, TableA, f)) > 0

NewMessages ==
    SubSeq(Messages(r_batch), Len(x_last.before.messages) + 1,
           Len(Messages(r_batch)))

\* C9: add_values_to_table on a table with w fields appends exactly one
\* value to every column: the row's first w values, padded on the right
\* with empty strings; a longer row reports error 25, a shorter one
\* reports nothing.
C9_RowAppendsOneValuePerColumn ==
    x_last.op = "add_values_to_table" =>
        LET keys == x_tables[x_last.table].keys
            w    == Len(keys)
            n    == Len(x_last.values)
        IN /\ \A i \in 1..w :
                 Column(x_tables, x_heap, x_last.table, keys[i])
                   = Append(Column(x_last.before.extcsv,
                                   x_last.before.heap, x_last.table,
                                   keys[i]),
                            IF i <= n THEN strip(x_last.values[i])
                            ELSE <<>>)
           /\ n > w => /\ Len(NewMessages) = 1
                       /\ NewMessages[1].code = 25
           /\ n < w => NewMessages = <<>>

\* C9: a row longer than the table is wide was added and truncated.
C9_LongRowTruncated ==
    /\ x_last.op = "add_values_to_table"
    /\ Len(x_last.values) > Len(x_tables[x_last.table].keys)
    /\ NewMessages # <<>>

\* C20: check_field_validity run a second time on the table it has just
\* repaired, with the same definition, reports no error 20, 5 or 6 and
\* leaves the set of field names of the table unchanged.
C20_FieldRepairIdempotent ==
    (x_last.op = "check_field_validity" /\ x_last.again) =>
        /\ \A i \in 1..Len(NewMessages) : NewMessages[i].code \notin {20, 5, 6}
        /\ Range(x_tables[x_last.table].keys)
             = Range(x_last.before.extcsv[x_last.table].keys)

\* C20: check_field_validity ran again after a run that corrected the case
\* of a field name, and returned.
C20_RepairedTableCheckedAgain ==
    /\ x_last.op = "check_field_validity" /\ x_last.again
    /\ x_last.raised = "None"
    /\ \E i \in 1..Len(x_last.before.messages) :
          x_last.before.messages[i].code = 20

(***************************************************************************)
(* Claims about ReportBuilder, under SpecReport.                           *)
(***************************************************************************)
RecordedFile ==
    r_last.op \in {"record_passing_file", "record_failing_file"}

\* C10: recording a file for which no message was added writes exactly one
\* row to the operator report, with an empty message and the status P or F
\* of the file.
C10_FileWithoutMessagesWritesOneRow ==
    (RecordedFile /\ r_last.before.messages = <<>>) =>
        /\ Len(r_report.rows) = Len(r_last.before.rows) + 1
        /\ r_report.rows[Len(r_report.rows)].message = ""
        /\ r_report.rows[Len(r_report.rows)].status = r_last.status
        /\ r_report.rows[Len(r_report.rows)].filepath = r_last.filepath

\* C10: a passing file without messages was recorded after a file that had
\* messages, and the operator report is open.
C10_FileWithoutMessagesRecorded ==
    /\ r_last.op = "record_passing_file" /\ r_last.raised = "None"
    /\ r_last.before.messages = <<>>
    /\ r_report.open /\ r_report.rows # <<>>

\* C11: a report builder constructed with a null working directory never
\* opens or writes the operator report or the run report.
C11_NullDirectoryWritesNoFile ==
    r_root = "None" => (~r_report.open /\ r_runfile = <<>>)

\* C11: a file was recorded by a report builder without working directory.
C11_RecordedWithoutDirectory ==
    r_root = "None" /\ RecordedFile /\ r_last.raised = "None"

(***************************************************************************)
(* Claims about the run number, under SpecRun.                             *)
(***************************************************************************)
\* the run numbers of the files named operator-report-<date>-run<N>.csv
NamedRuns ==
    {report_number(name) :
        name \in {n \in r_dir : matches_operator_report_literal_dot(n)}}

\* C12: a report builder on a working directory without a supplied run
\* number gets one more than the highest run number of the files named
\* operator-report-<date>-run<N>.csv there, 1 when there is none; a
\* supplied non-zero run number is used unchanged.
C12_RunNumberFollowsHighest ==
    (r_last.op = "__init__" /\ r_root # "None") =>
        /\ r_last.run = 0 => r_run = 1 + SetMax({0} \cup NamedRuns)
        /\ r_last.run # 0 => r_run = r_last.run

\* C12: a report builder derived its run number from a directory holding
\* operator reports of two dates.
C12_RunNumberDerived ==
    /\ r_last.op = "__init__" /\ r_root # "None" /\ r_last.run = 0
    /\ Cardinality({SubSeq(n, 17, 26) : n \in find_operator_reports(r_dir)})
         = 2
    /\ r_run = 11

(***************************************************************************)
(* Claims about the groups of the run report, under SpecReport.            *)
(***************************************************************************)
\* the files recorded so far under a spelling of the raw acronym raw
SeenAs(raw) ==
    {i \in 1..Len(r_seen) : raw_contributor(r_seen[i].contributor) = raw}

\* the raw acronyms that are known contributors: a file of theirs passed
KnownRaws ==
    {raw_contributor(r_seen[i].contributor) :
        i \in {j \in 1..Len(r_seen) : r_seen[j].status = "P"}}

FirstSeen(raw) ==
    r_seen[CHOOSE i \in SeenAs(raw) : \A j \in SeenAs(raw) : i <= j]
        .contributor

GroupsOf(raw) ==
    {k \in 1..Len(r_runfile) :
        raw_contributor(r_runfile[k].contributor) = raw}

\* C13: once files are recorded under spellings of a known contributor
\* that differ only in case or hyphens, the run report lists all of them
\* in one group, headed by the spelling that was seen first.
C13_GroupHeadedByFirstSeen ==
    (RecordedFile /\ r_last.raised = "None") =>
        \A raw \in KnownRaws :
            /\ Cardinality(GroupsOf(raw)) = 1
            /\ \A k \in GroupsOf(raw) :
                  /\ r_runfile[k].contributor = FirstSeen(raw)
                  /\ \A i \in SeenAs(raw) :
                        <<r_seen[i].status, r_seen[i].filepath>>
                            \in Range(r_runfile[k].results)

\* C13: two files were recorded under two spellings of one contributor.
C13_TwoSpellingsRecorded ==
    /\ RecordedFile /\ r_last.raised = "None"
    /\ \E raw \in KnownRaws :
          Cardinality({r_seen[i].contributor : i \in SeenAs(raw)}) = 2

\* C14: recording a file completes for every spelling of the acronym;
\* in the run report the files of contributors that are not known are
\* listed under UNKNOWN, and the groups are in ascending order of their
\* names with UNKNOWN last.
C14_UnknownGroupedLast ==
    RecordedFile =>
        /\ r_last.raised = "None"
        /\ \A i \in 1..Len(r_seen) :
              raw_contributor(r_seen[i].contributor) \notin KnownRaws =>
                  \E k \in 1..Len(r_runfile) :
                      /\ r_runfile[k].contributor = Unknown
                      /\ <<r_seen[i].status, r_seen[i].filepath>>
                             \in Range(r_runfile[k].results)
        /\ \A k \in 1..Len(r_runfile) - 1 :
              /\ r_runfile[k].contributor # Unknown
              /\ r_runfile[k + 1].contributor # Unknown =>
                    str_less(r_runfile[k].contributor,
                             r_runfile[k + 1].contributor)

\* C14: a failing file of a contributor that is not known was recorded.
C14_UnknownContributorRecorded ==
    /\ r_last.op = "record_failing_file"
    /\ raw_contributor(r_seen[Len(r_seen)].contributor) \notin KnownRaws

\* the rows the last record call wrote to the operator report
RowsWritten ==
    SubSeq(r_report.rows, Len(r_last.before.rows) + 1, Len(r_report.rows))

\* C16: the rows written to the operator report for a file are in
\* ascending order of their source line numbers, whatever the order in
\* which the messages were added.
C16_RowsInLineOrder ==
    (RecordedFile /\ r_report.open /\ r_report.rows # <<>>) =>
        \A i, j \in 1..Len(RowsWritten) :
            (/\ i < j
             /\ RowsWritten[i].line # NoLine
             /\ RowsWritten[j].line # NoLine) =>
                RowsWritten[i].line <= RowsWritten[j].line

\* C16: a file with messages at two different lines was recorded.
C16_TwoLinesWritten ==
    /\ RecordedFile /\ r_report.open /\ r_report.rows # <<>>
    /\ Len(RowsWritten) = 2
    /\ RowsWritten[1].line # NoLine /\ RowsWritten[2].line # NoLine
    /\ RowsWritten[1].line # RowsWritten[2].line

IsPrefix(s, t) == Len(s) <= Len(t) /\ SubSeq(t, 1, Len(s)) = s

\* C17: in every step each of the four per-message lists of the batch
\* keeps its earlier entries at their positions and gets one new entry
\* for each message added, and the document's errors and warnings lists
\* keep their earlier entries and get these messages between them.
C17_MessagesOnlyAppended ==
    [][/\ IsPrefix(r_batch.line_numbers, r_batch'.line_numbers)
       /\ IsPrefix(r_batch.error_codes, r_batch'.error_codes)
       /\ IsPrefix(r_batch.error_types, r_batch'.error_types)
       /\ IsPrefix(r_batch.message_texts, r_batch'.message_texts)
       /\ Len(r_batch'.error_codes) = Len(r_batch'.line_numbers)
       /\ Len(r_batch'.error_types) = Len(r_batch'.line_numbers)
       /\ Len(r_batch'.message_texts) = Len(r_batch'.line_numbers)
       /\ IsPrefix(x_errors, x_errors')
       /\ IsPrefix(x_warnings, x_warnings')
       /\ Len(r_batch'.line_numbers) - Len(r_batch.line_numbers)
            = (Len(x_errors') - Len(x_errors))
              + (Len(x_warnings') - Len(x_warnings))]_vars

\* C17: messages of two different codes are in the batch, one among the
\* document's errors and one among its warnings.
C17_ErrorAfterWarning ==
    /\ Len(r_batch.error_codes) >= 2
    /\ r_batch.error_codes[1] # r_batch.error_codes[2]
    /\ x_errors # <<>> /\ x_warnings # <<>>

(***************************************************************************)
(* Claims about parse_utcoffset, under SpecOffset.                         *)
(***************************************************************************)
ZeroOffsets ==
    { <<"+", "0", "0">>, <<"0", "0", ":", "0", "0">>, <<"0">>,
      <<"-", "0", ":", "0", ":", "0">> }

\* C19: where the codes of parse_utcoffset are warnings, parse_utcoffset
\* on +00, 00:00, 0 or -0:0:0 returns +00:00:00 and reports code 46 for
\* it.
C19_ZeroOffsetNormalised ==
    (/\ x_last.op = "parse_utcoffset" /\ x_last.utcoffset \in ZeroOffsets
     /\ \A c \in OffsetCodes : r_defs[c] = "Warning") =>
        /\ x_last.raised = "None"
        /\ x_last.value = PlusZero
        /\ 46 \in Range(r_batch.error_codes)

\* C19: parse_utcoffset returned +00:00:00 for one of the four texts.
C19_ZeroOffsetParsed ==
    /\ x_last.op = "parse_utcoffset" /\ x_last.utcoffset \in ZeroOffsets
    /\ x_last.raised = "None" /\ x_last.value = PlusZero

(***************************************************************************)
(* Claims about the run statistics, under SpecStats.                       *)
(***************************************************************************)
\* the file has an error row and no passing row in the older of two
\* reports and a passing row in the newer one
FailedThenPassed(agency, filename) ==
    /\ Len(s_reports) = 2
    /\ \E i \in 1..Len(s_reports[1]) :
          LET line == s_reports[1][i]
          IN /\ agency_of(line) = agency /\ line.filename = filename
             /\ line.status = "F" /\ line.type = "Error" /\ line.code # 209
    /\ \A i \in 1..Len(s_reports[1]) :
          LET line == s_reports[1][i]
          IN (agency_of(line) = agency /\ line.filename = filename) =>
                line.status = "F"
    /\ \E i \in 1..Len(s_reports[2]) :
          LET line == s_reports[2][i]
          IN /\ agency_of(line) = agency /\ line.filename = filename
             /\ line.status = "P"

\* C15: when the statistics end, the reports were scanned oldest first,
\* and a file with error rows in one report and a passing row in a later
\* one is no longer in the still-failing map and is in the manually-fixed
\* map of its agency.
C15_FixedFilesMoved ==
    s_pc \in {"returned", "TypeError"} =>
        \A agency \in {"A", "UNKNOWN"}, filename \in {"f1", "f2"} :
            FailedThenPassed(agency, filename) =>
                /\ s_pc = "returned"
                /\ s_order = <<1, 2>>
                /\ filename \notin DOMAIN Get(s_errors, agency, EmptyDict)
                /\ filename \in Get(s_fixes, agency, {})

\* C15: the statistics ended on two reports, the older with error rows of
\* a file and the newer with a passing row of it.
C15_FailingFilePassedLater ==
    /\ s_pc \in {"returned", "TypeError"}
    /\ \E agency \in {"A", "UNKNOWN"}, filename \in {"f1", "f2"} :
          FailedThenPassed(agency, filename)

(***************************************************************************)
(* Further claims about check_field_validity, under SpecTable.             *)
(***************************************************************************)
\* the rows of a required column that hold the empty string
EmptyRows(field) ==
    LET column == Column(x_tables, x_heap, x_last.table, field)
    IN {i \in 1..Len(column) : column[i] = <<>>}

\* C21: check_field_validity reports error 7 for every empty value of a
\* required column, at the line of the row that holds it.
C21_EveryEmptyValueReported ==
    (x_last.op = "check_field_validity" /\ x_last.raised = "None") =>
        \A field \in Range(x_last.definition.required_fields) :
            \A i \in EmptyRows(field) :
                \E k \in 1..Len(NewMessages) :
                    /\ NewMessages[k].code = 7
                    /\ NewMessages[k].line = x_line[x_last.table] + 1 + i

\* C21: check_field_validity returned on a table whose required column
\* holds empty values in two rows.
C21_TwoEmptyRowsChecked ==
    /\ x_last.op = "check_field_validity" /\ x_last.raised = "None"
    /\ \E field \in Range(x_last.definition.required_fields) :
          Cardinality(EmptyRows(field)) = 2

(***************************************************************************)
(* Claims about _determine_version, under SpecVersion.                     *)
(***************************************************************************)
\* the score of a version: |present unique tables| / |unique tables|, and
\* zero for a version without unique tables
Score(version) ==
    IF uniques(v_schema, version) = {} THEN [num |-> 0, den |-> 1]
    ELSE rating(v_schema, x_tables, version)

\* C22: _determine_version ends either by returning a version whose score
\* is maximal over all versions or, when every score is zero, by reporting
\* error 13 and raising NonStandardDataError, for every version-keyed map,
\* also one in which some version has no table unique to it.
C22_BestVersionOrError13 ==
    x_last.op = "_determine_version" =>
        IF \A v \in DOMAIN v_schema : Score(v).num = 0
        THEN /\ x_last.raised = "NonStandardDataError"
             /\ \E k \in 1..Len(Messages(r_batch)) :
                   Messages(r_batch)[k].code = 13
        ELSE /\ x_last.raised = "None"
             /\ x_last.returned \in DOMAIN v_schema
             /\ \A v \in DOMAIN v_schema :
                   rating_le(Score(v), Score(x_last.returned))

\* C22: _determine_version ran on a map in which some version has no table
\* unique to it.
C22_VersionWithoutUniqueTable ==
    /\ x_last.op = "_determine_version"
    /\ \E v \in DOMAIN v_schema : uniques(v_schema, v) = {}

\* C26: two runs on the same document and the same schema end the same
\* way: the same version returned, or the same error raised.
C26_SameVersionEveryRun ==
    Len(v_runs) = 2 =>
        /\ v_runs[1].returned = v_runs[2].returned
        /\ v_runs[1].raised = v_runs[2].raised

\* C26: two runs were made on a document for which two versions share the
\* maximal score.
C26_TwoRunsOnTie ==
    /\ Len(v_runs) = 2
    /\ v_runs[1].raised = "None"
    /\ \E v, w \in DOMAIN v_schema :
          /\ v # w
          /\ rating_le(Score(v), Score(w)) /\ rating_le(Score(w), Score(v))
          /\ \A u \in DOMAIN v_schema : rating_le(Score(u), Score(v))

(***************************************************************************)
(* Claims about check_deployment and check_location, under SpecProcess.    *)
(***************************************************************************)
Min(a, b) == IF a <= b THEN a ELSE b

Max(a, b) == IF a >= b THEN a ELSE b

Count(seq, x) == Cardinality({i \in 1..Len(seq) : seq[i] = x})

\* C23: check_deployment on a deployment the registry holds with
\* start_date <= end_date leaves start_date = min(old start_date, date) and
\* end_date = max(old end_date, date), saves the registry exactly when one
\* of the two changed, and returns True.
C23_DeploymentRangeExtended ==
    [][(/\ p_calls' = p_calls + 1
        /\ p_last'.returned.check_deployment # "none"
        /\ DeploymentId(p_last'.doc) \in DOMAIN deployments
        /\ deployments[DeploymentId(p_last'.doc)].start_date
              <= deployments[DeploymentId(p_last'.doc)].end_date)
       => LET id   == DeploymentId(p_last'.doc)
              date == p_last'.doc.TsDate
              old  == deployments[id]
              new  == deployments'[id]
          IN /\ new.start_date = Min(old.start_date, date)
             /\ new.end_date = Max(old.end_date, date)
             /\ Count(p_last'.writes, "save_deployment_dates")
                   = IF new # old THEN 1 ELSE 0
             /\ p_last'.returned.check_deployment = "True"]_vars

\* C23: check_deployment moved a bound of a deployment and saved it.
C23_DeploymentBoundMoved ==
    /\ p_last.returned.check_deployment = "True"
    /\ Count(p_last.writes, "save_deployment_dates") = 1
    /\ \E id \in DOMAIN deployments :
          /\ id = DeploymentId(p_last.doc)
          /\ deployments[id].end_date = p_last.doc.TsDate
          /\ deployments[id].start_date < p_last.doc.TsDate

\* the instruments check_location compares the file's location with
LocationInstruments ==
    {i \in instruments :
        InstrumentId(i) = <<p_last.doc.InstrName, p_last.doc.InstrModel,
                            p_last.doc.Number, p_last.doc.PlatformID,
                            p_last.doc.Category>>}

\* the two values are numbers more than one apart
Far(v, w) == Numeric(v) /\ Numeric(w) /\ Abs(v.val - w.val) > 1

\* C24: check_location reports a mismatch with the registry (error 77 for
\* latitude and longitude, warning 77 for height) only when the value in
\* the file and the value of the instrument differ by more than 1.
C24_MismatchOnlyBeyondOne ==
    p_last.returned.check_location # "none" =>
        /\ 77 \in Range(p_last.errors) =>
              \E i \in LocationInstruments :
                  Far(p_last.doc.Lat, i.y) \/ Far(p_last.doc.Lon, i.x)
        /\ 77 \in Range(p_last.warnings) =>
              \E i \in LocationInstruments : Far(p_last.doc.Height, i.z)

\* C24: check_location returned for a file whose latitude is exactly 1
\* away from the latitude of its instrument.
C24_DifferenceOfOne ==
    /\ p_last.returned.check_location # "none"
    /\ \E i \in LocationInstruments :
          /\ Numeric(p_last.doc.Lat) /\ Numeric(i.y)
          /\ Abs(p_last.doc.Lat.val - i.y.val) = 1

\* C25: check_location reports error 75 and returns False whenever the
\* latitude or the longitude of the file is not a number.
C25_NonNumericLocationFails ==
    (/\ p_last.returned.check_location # "none"
     /\ ~Numeric(p_last.doc.Lat) \/ ~Numeric(p_last.doc.Lon))
        => /\ 75 \in Range(p_last.errors)
           /\ p_last.returned.check_location = "False"

\* C25: check_location returned for a file with a latitude or longitude
\* that is not a number and an instrument the registry does not hold.
C25_NonNumericWithoutInstrument ==
    /\ p_last.returned.check_location # "none"
    /\ ~Numeric(p_last.doc.Lat) \/ ~Numeric(p_last.doc.Lon)
    /\ LocationInstruments = {}

(***************************************************************************)
(* Claim about the table bookkeeping, under SpecLifecycle.                 *)
(***************************************************************************)
\* the tables of the document whose base type is type
Instances(type) == {name \in DOMAIN x_tables : table_type(name) = type}

\* C27: after any sequence of init_table, remove_table and
\* validate_dataset_tables, the count of every table type is the number of
\* tables of that type in the document, and a header line is recorded
\* exactly for the tables of the document.
C27_CountsAndLinesMatchTables ==
    /\ \A type \in {table_type(name) : name \in DOMAIN x_tables}
                      \cup DOMAIN x_count :
          (IF type \in DOMAIN x_count THEN x_count[type] ELSE 0)
              = Cardinality(Instances(type))
    /\ DOMAIN x_line = DOMAIN x_tables

\* C27: validate_dataset_tables deleted a table that the dataset does not
\* allow and reported error 4.
C27_ExtraTableDeleted ==
    /\ x_last.op = "validate_dataset_tables"
    /\ 4 \in Range(r_batch.error_codes)

(***************************************************************************)
(* Claim about the rows of the operator report, under SpecReport.          *)
(***************************************************************************)
\* the rows that hold the messages added while the i-th file was processed,
\* with the status and the name of that file
RowsOwed(i) ==
    [k \in 1..Len(r_seen[i].added) |->
        [status   |-> r_seen[i].status,
         code     |-> r_seen[i].added[k].code,
         line     |-> r_seen[i].added[k].line,
         filepath |-> r_seen[i].filepath]]

RECURSIVE AllRowsOwed(_)
AllRowsOwed(n) == IF n = 0 THEN <<>> ELSE AllRowsOwed(n - 1) \o RowsOwed(n)

RowsFound ==
    [k \in 1..Len(r_report.rows) |->
        [status   |-> r_report.rows[k].status,
         code     |-> r_report.rows[k].code,
         line     |-> r_report.rows[k].line,
         filepath |-> r_report.rows[k].filepath]]

\* C28: every message added while a file was processed is in the operator
\* report exactly once, in a row with the status and the name of that
\* file, also after a record call that raised during its flush.
C28_EachMessageWrittenOnce ==
    \A row \in Range(RowsFound) \cup Range(AllRowsOwed(Len(r_seen))) :
        Count(RowsFound, row) = Count(AllRowsOwed(Len(r_seen)), row)

\* C28: a file was recorded after the record call of an earlier file,
\* which had a message, raised during its flush.
C28_RecordedAfterRaisedFlush ==
    /\ Len(r_seen) = 2
    /\ r_seen[1].added # <<>>
    /\ r_last.op \in {"record_passing_file", "record_failing_file"}
    /\ r_last.before.messages # <<>>
    /\ r_last.before.rows # <<>>

(***************************************************************************)
(* Claim about two report builders, under SpecBuilders.                    *)
(***************************************************************************)
\* C29: two report builders made on the same working directory without a
\* run number have different run numbers, and never open the same
\* operator report, however their constructors and first writes interleave.
C29_DifferentRunNumbers ==
    \A a, b \in Builders :
        (a # b /\ b_pc[a] # "new" /\ b_pc[b] # "new") =>
            /\ b_run[a] # b_run[b]
            /\ (b_pc[a] = "writing" /\ b_pc[b] = "writing")
                  => b_open[a] # b_open[b]

\* C29: both builders were constructed before either wrote its report.
C29_BothConstructedBeforeWrite ==
    \A b \in Builders : b_pc[b] = "constructed"

(***************************************************************************)
(* Claim about the counts of the email report, under SpecStats.            *)
(***************************************************************************)
\* the files of an agency named in the operator reports
FilesOf(agency) ==
    {line.filename :
        line \in {l \in UNION {Range(s_reports[i]) : i \in 1..Len(s_reports)} :
                     agency_of(l) = agency}}

\* C30: in the statistics of the email report the files that passed the
\* first time, the files fixed by hand and the files still failing are
\* pairwise disjoint for every agency, the total is the number of
\* distinct files of the agency, and a file that failed in an earlier
\* report and passed in a later one counts as fixed and not as passed.
C30_FileCountedOnce ==
    s_pc = "returned" =>
        \A agency \in {"A", "UNKNOWN"} :
            LET passed == Get(s_passed, agency, {})
                fixed  == Get(s_fixes, agency, {})
                failed == DOMAIN Get(s_errors, agency, EmptyDict)
            IN /\ passed \cap fixed = {}
               /\ passed \cap failed = {}
               /\ fixed \cap failed = {}
               /\ total_count(s_passed, s_fixes, s_errors, agency)
                     = Cardinality(FilesOf(agency))
               /\ \A filename \in FilesOf(agency) :
                     FailedThenPassed(agency, filename) =>
                         filename \in fixed /\ filename \notin passed

\* C30: the statistics were returned for a file that failed in the older
\* report and passed in the newer one.
C30_StatisticsOfFixedFile ==
    /\ s_pc = "returned"
    /\ \E agency \in {"A", "UNKNOWN"} :
          \E filename \in FilesOf(agency) : FailedThenPassed(agency, filename)

====
